---- MODULE Spec2Model ----
(***************************************************************************)
(* The amaal calendar: the rule expander of src/lib/expandAmaalEvents.ts   *)
(* and the page state of src/app/page.tsx that calls it.                   *)
(*                                                                         *)
(* Strings are TLA+ strings (concatenated with \o, cut with SubSeq).       *)
(* A nullable value is <<>> (null) or <<v>>;  a nullable string is held as  *)
(* the text a template literal renders it to.                              *)
(* A luxon DateTime is [valid, days, time]: days counts civil days since   *)
(* 1970-01-01 in the DateTime's zone, time is the wall-clock part of its   *)
(* ISO rendering.  An invalid DateTime renders as null.                    *)
(***************************************************************************)
EXTENDS Integers, Sequences, FiniteSets, TLC

VARIABLES
    response,          \* how the page's fetch of the dataset ends: "rejected",
                       \* "notJson" (the body does not parse) or "json"
    file,              \* the document the body parses to when it does
    loadState,         \* the fetch effect: "pending", "resolved" (setAmaal was
                       \* called) or "alerted" (the catch handler ran)
    crashed,           \* a render of the page has thrown
    hijriMonths,       \* the page's HIJRI_MONTHS (the two page variants differ)
    amaal,             \* page state: <<>> (null) or <<dataset>>
    configs,           \* page state: monthConfigs, normalized month -> MonthConfig
    selectedLocation,  \* page state: key of LOCATIONS
    displayTimezone,   \* page state: key of LOCATIONS the modal formats times in
    effectPending,     \* a render has committed a new selectedLocation and the
                       \* displayTimezone effect has not run yet
    locations,         \* the page's LOCATIONS object
    events,            \* expandAmaalEvents' local list `events` of the last call
    origin,            \* for each entry of events: the rule index and lunar day
                       \* whose loop iteration pushed it (day 0: month-wide)
    expandedEvents,    \* the list the page's useMemo holds
    listFresh,         \* the array object the last render put there is another
                       \* object than the one it replaced and than the inputs
    ordinalArg,        \* the day number a call of getOrdinal is given
    ordinalResult,     \* what the call returned ("" before it has returned)
    geocode,           \* a call of the geocoding route's GET handler: its
                       \* request, its position, the upstream exchange and
                       \* how the call ended
    bulletsArg,        \* the list a call of renderNestedBullets is given
    bulletsResult      \* the call's position and, once it has returned,
                       \* whether it returned null and the nodes of the tree
                       \* it built, in the order they were made

vars == <<response, file, loadState, crashed, hijriMonths, amaal, configs, selectedLocation, locations,
          events, origin, expandedEvents, listFresh, ordinalArg, ordinalResult,
          displayTimezone, effectPending, geocode, bulletsArg, bulletsResult>>

Null == <<>>

\* const x = v; ... x ... : the body F applied to the value of v
LetIn(v, F(_)) == CHOOSE r \in {F(b) : b \in {v}} : TRUE

----------------------------------------------------------------------------
(* JavaScript primitives *)

\* JS `a % b`: the remainder takes the sign of the dividend.
JsRem(a, b) == IF a >= 0 THEN a % b ELSE -((-a) % b)

Min(a, b) == IF a <= b THEN a ELSE b
Max(a, b) == IF a >= b THEN a ELSE b

\* A string-or-null value is held as the string a template literal renders it
\* to; NullStr is what null renders to.  toISO never returns that text for a
\* valid DateTime.
NullStr == "null"

Upper == "ABCDEFGHIJKLMNOPQRSTUVWXYZ"
Lower == "abcdefghijklmnopqrstuvwxyz"

CharAt(s, i) == SubSeq(s, i, i)

\* A character of \s
IsSpace(c) == c \in {" ", "\t", "\n"}

LowerChar(c) ==
    IF \E i \in 1..Len(Upper) : CharAt(Upper, i) = c
    THEN CharAt(Lower, CHOOSE i \in 1..Len(Upper) : CharAt(Upper, i) = c)
    ELSE c

RECURSIVE toLowerCase(_)
toLowerCase(s) ==
    IF Len(s) = 0 THEN "" ELSE LowerChar(CharAt(s, 1)) \o toLowerCase(Tail(s))

RECURSIVE trimStart(_)
trimStart(s) ==
    IF Len(s) > 0 /\ IsSpace(CharAt(s, 1)) THEN trimStart(Tail(s)) ELSE s

RECURSIVE trimEnd(_)
trimEnd(s) ==
    IF Len(s) > 0 /\ IsSpace(CharAt(s, Len(s)))
    THEN trimEnd(SubSeq(s, 1, Len(s) - 1)) ELSE s

trim(s) == trimEnd(trimStart(s))

\* s.replace(/\s+/g, " ")
RECURSIVE collapseSpaces(_)
collapseSpaces(s) ==
    IF Len(s) = 0 THEN ""
    ELSE IF IsSpace(CharAt(s, 1))
         THEN " " \o collapseSpaces(trimStart(s))
         ELSE CharAt(s, 1) \o collapseSpaces(Tail(s))

\* s.replace(/['']/g, "'"): both alternatives of the class are the ASCII
\* apostrophe, so the replacement rewrites an apostrophe to itself.
replaceQuotes(s) == s


\* normMonth without the collapse of white-space runs
normMonthUncollapsed(s) ==
    LetIn(trim(s), LAMBDA t :
    LetIn(toLowerCase(t), LAMBDA l : replaceQuotes(l)))

\* expandAmaalEvents.ts normMonth
normMonth(s) ==
    LetIn(trim(s), LAMBDA t :
    LetIn(toLowerCase(t), LAMBDA l :
    LetIn(replaceQuotes(l), LAMBDA q : collapseSpaces(q))))

\* page.tsx normMonth: no whitespace collapsing
pageNormMonth(s) ==
    LetIn(trim(s), LAMBDA t :
    LetIn(toLowerCase(t), LAMBDA l : replaceQuotes(l)))

----------------------------------------------------------------------------
(* luxon DateTime *)

Digits == "0123456789"

IsDigit(c) == \E i \in 1..10 : CharAt(Digits, i) = c
DigitVal(c) == (CHOOSE i \in 1..10 : CharAt(Digits, i) = c) - 1

RECURSIVE ParseNat(_)
ParseNat(s) ==
    IF Len(s) = 0 THEN 0
    ELSE 10 * ParseNat(SubSeq(s, 1, Len(s) - 1)) + DigitVal(CharAt(s, Len(s)))

AllDigits(s) == \A i \in 1..Len(s) : IsDigit(CharAt(s, i))

IsLeap(y) == (y % 4 = 0 /\ y % 100 # 0) \/ y % 400 = 0

DaysInMonth(y, m) ==
    IF m = 2 THEN (IF IsLeap(y) THEN 29 ELSE 28)
    ELSE IF m \in {4, 6, 9, 11} THEN 30 ELSE 31

\* civil date -> days since 1970-01-01 (proleptic Gregorian)
DaysFromCivil(y, m, d) ==
    LetIn(IF m <= 2 THEN y - 1 ELSE y, LAMBDA yy :
    LetIn(yy \div 400, LAMBDA era :
    LetIn(yy - era * 400, LAMBDA yoe :
    LetIn((153 * (IF m > 2 THEN m - 3 ELSE m + 9) + 2) \div 5 + d - 1, LAMBDA doy :
    LetIn(yoe * 365 + yoe \div 4 - yoe \div 100 + doy, LAMBDA doe :
        era * 146097 + doe - 719468)))))

\* days since 1970-01-01 -> civil date
CivilFromDays(z) ==
    LetIn(z + 719468, LAMBDA zz :
    LetIn(zz \div 146097, LAMBDA era :
    LetIn(zz - era * 146097, LAMBDA doe :
    LetIn((doe - doe \div 1460 + doe \div 36524 - doe \div 146096) \div 365,
          LAMBDA yoe :
    LetIn(doe - (365 * yoe + yoe \div 4 - yoe \div 100), LAMBDA doy :
    LetIn((5 * doy + 2) \div 153, LAMBDA mp :
    LetIn(IF mp < 10 THEN mp + 3 ELSE mp - 9, LAMBDA m :
        [y |-> yoe + era * 400 + (IF m <= 2 THEN 1 ELSE 0),
         m |-> m,
         d |-> doy - (153 * mp + 2) \div 5 + 1])))))))

Invalid == [valid |-> FALSE, days |-> 0, time |-> ""]

StartOfDayTime == "00:00:00.000"
EndOfDayTime == "23:59:59.999"

\* DateTime.fromISO(text, {zone}) for the texts a date input produces:
\* "YYYY-MM-DD" gives local midnight of that date, anything else (the empty
\* string, a day out of range) an invalid DateTime.
fromISO(text) ==
    IF /\ Len(text) = 10
       /\ CharAt(text, 5) = "-" /\ CharAt(text, 8) = "-"
       /\ AllDigits(SubSeq(text, 1, 4))
       /\ AllDigits(SubSeq(text, 6, 7))
       /\ AllDigits(SubSeq(text, 9, 10))
    THEN LetIn(ParseNat(SubSeq(text, 1, 4)), LAMBDA y :
         LetIn(ParseNat(SubSeq(text, 6, 7)), LAMBDA m :
         LetIn(ParseNat(SubSeq(text, 9, 10)), LAMBDA d :
             IF m \in 1..12 /\ d >= 1 /\ d <= DaysInMonth(y, m)
             THEN [valid |-> TRUE, days |-> DaysFromCivil(y, m, d),
                   time |-> StartOfDayTime]
             ELSE Invalid)))
    ELSE Invalid

\* dt.plus({days: n}) / dt.minus({days: n}): calendar arithmetic, the wall
\* clock is kept; an invalid DateTime stays invalid.
plusDays(dt, n) == IF dt.valid THEN [dt EXCEPT !.days = @ + n] ELSE dt

startOfDay(dt) == IF dt.valid THEN [dt EXCEPT !.time = StartOfDayTime] ELSE dt
endOfDay(dt) == IF dt.valid THEN [dt EXCEPT !.time = EndOfDayTime] ELSE dt

\* dt.weekday: 1 = Monday .. 7 = Sunday; NaN (here 0) when invalid.
weekdayOf(dt) == IF dt.valid THEN ((dt.days + 3) % 7) + 1 ELSE 0

Pad2(n) == IF n < 10 THEN "0" \o ToString(n) ELSE ToString(n)
Pad4(n) ==
    IF n < 10 THEN "000" \o ToString(n)
    ELSE IF n < 100 THEN "00" \o ToString(n)
    ELSE IF n < 1000 THEN "0" \o ToString(n) ELSE ToString(n)

\* The n-th (1-based) Sunday of month m of year y, as a day count.
NthSunday(y, m, n) ==
    LetIn(DaysFromCivil(y, m, 1), LAMBDA first :
        first + ((7 - (((first + 3) % 7) + 1)) % 7) + 7 * (n - 1))

\* UTC offset of the zone at the wall-clock time of dt.  Asia/Qatar has no
\* daylight saving; America/Toronto is on daylight time from 02:00 of the
\* second Sunday of March to 02:00 of the first Sunday of November.
zoneOffset(tz, dt) ==
    IF tz = "Asia/Qatar" THEN "+03:00"
    ELSE LetIn(CivilFromDays(dt.days).y, LAMBDA y :
         LetIn(NthSunday(y, 3, 2), LAMBDA from :
         LetIn(NthSunday(y, 11, 1), LAMBDA to :
             IF (IF dt.time = StartOfDayTime
                 THEN from < dt.days /\ dt.days <= to
                 ELSE from <= dt.days /\ dt.days < to)
             THEN "-04:00" ELSE "-05:00")))

\* dt.toISO(): null for an invalid DateTime.
toISO(dt, tz) ==
    LetIn(dt, LAMBDA v :
        IF ~v.valid THEN NullStr
        ELSE LetIn(CivilFromDays(v.days), LAMBDA c :
                 Pad4(c.y) \o "-" \o Pad2(c.m) \o "-" \o Pad2(c.d) \o "T"
                 \o v.time \o zoneOffset(tz, v)))

----------------------------------------------------------------------------
(* src/lib/expandAmaalEvents.ts *)

\* weekdayToLuxon numbering Sunday 0, as Date.getDay does
weekdayToGetDay(weekday) ==
    CASE weekday = "MON" -> 1
      [] weekday = "TUE" -> 2
      [] weekday = "WED" -> 3
      [] weekday = "THU" -> 4
      [] weekday = "FRI" -> 5
      [] weekday = "SAT" -> 6
      [] weekday = "SUN" -> 0
      [] OTHER -> 0

\* weekdayToLuxon: map[weekday] ?? 0
weekdayToLuxon(weekday) ==
    CASE weekday = "MON" -> 1
      [] weekday = "TUE" -> 2
      [] weekday = "WED" -> 3
      [] weekday = "THU" -> 4
      [] weekday = "FRI" -> 5
      [] weekday = "SAT" -> 6
      [] weekday = "SUN" -> 7
      [] OTHER -> 0


\* hijriDayToGregorian with lunar day 1 one day after the anchor's start date
hijriDayToGregorianFromZero(cfg, hijriDay) ==
    LetIn(fromISO(cfg.startDateISO), LAMBDA dt :
        plusDays(startOfDay(dt), hijriDay))

\* hijriDayToGregorian(cfg, hijriDay, tz)
hijriDayToGregorian(cfg, hijriDay) ==
    LetIn(fromISO(cfg.startDateISO), LAMBDA dt :
        plusDays(startOfDay(dt), hijriDay - 1))

\* getPrayerTimesAccurate(gregDate, tz, coords): the astronomical calculation
\* is opaque; its result is a function of the civil date and the coordinates.
\* Both instants fall on the civil date asked for, after 02:00.  An invalid
\* date gives invalid instants.
getPrayerTimesAccurate(gregDate, coords) ==
    LetIn(gregDate, LAMBDA g :
        IF g.valid
        THEN [fajr    |-> [g EXCEPT
                !.time = "<fajr@" \o coords.lat \o "," \o coords.lon \o ">"],
              maghrib |-> [g EXCEPT
                !.time = "<maghrib@" \o coords.lat \o "," \o coords.lon \o ">"]]
        ELSE [fajr |-> Invalid, maghrib |-> Invalid])

\* s[i] || ... on the suffix table s = ["th", "st", "nd", "rd"]: an index
\* outside 0..3 reads undefined, which is falsy like "".
SuffixAt(i) == IF i \in 0..3 THEN <<"th", "st", "nd", "rd">>[i + 1] ELSE ""

\* getOrdinal with the remainder taking the sign of the divisor
getOrdinalFloored(n) ==
    LetIn(n % 100, LAMBDA v :
    LetIn(SuffixAt((v - 20) % 10), LAMBDA a :
    LetIn(SuffixAt(v), LAMBDA b :
        ToString(n) \o (IF a # "" THEN a ELSE IF b # "" THEN b ELSE SuffixAt(0)))))

\* getOrdinal: n + (s[(v - 20) % 10] || s[v] || s[0]) with v = n % 100
getOrdinal(n) ==
    LetIn(JsRem(n, 100), LAMBDA v :
    LetIn(SuffixAt(JsRem(v - 20, 10)), LAMBDA a :
    LetIn(SuffixAt(v), LAMBDA b :
        ToString(n) \o (IF a # "" THEN a ELSE IF b # "" THEN b ELSE SuffixAt(0)))))

\* x ?? y in place of x || y: a string is never nullish
OrElseNullish(x, y) == x

\* x || y on strings
OrElse(x, y) == IF x # "" THEN x ELSE y

\* x ?? null on a sections value
Nullish(x) == x \in {"undefined", "null"}
\* `sections: item.sections` without the `?? null`
OrNullKept(x) == x

OrNull(x) == IF Nullish(x) THEN "null" ELSE x

PURPLE == "#8b5cf6"
GREEN == "#059669"
BLUE == "#2563eb"

IsMonthWide(item) == item.rule_kind \in {"month_all", "month_any_time"}
IsWeekday(item) == item.rule_kind \in {"weekday", "weekday_multi"}

\* `if (!sd) continue`: null and 0 are falsy
SkipsStartDay(sd) == sd = Null \/ sd[1] = 0

\* ClampStart with the upper clamp one day short of the month's end
ClampStartShort(sd, monthLen) == Max(1, Min(sd[1], monthLen - 1))

\* startDay = Math.max(1, Math.min(sd, monthLen))
ClampStart(sd, monthLen) == Max(1, Min(sd[1], monthLen))

\* ClampEnd without the lower clamp to startDay
ClampEndUpperOnly(ed, startDay, monthLen) ==
    IF ed = Null THEN monthLen ELSE Min(ed[1], monthLen)

\* endDay = end_day == null ? monthLen : Math.max(startDay, Math.min(end_day, monthLen))
ClampEnd(ed, startDay, monthLen) ==
    IF ed = Null THEN monthLen ELSE Max(startDay, Min(ed[1], monthLen))

\* monthEvent whose end is the last day of the month, not the day after it
monthEventInclusive(item, cfg, tz) ==
    LetIn(hijriDayToGregorian(cfg, 1), LAMBDA start :
    LetIn(hijriDayToGregorian(cfg, cfg.length), LAMBDA endExclusive :
        [id          |-> item.id,
         title       |-> OrElse(item.label, item.hijri_month),
         startISO    |-> toISO(start, tz),
         endISO      |-> toISO(endExclusive, tz),
         allDay      |-> TRUE,
         description |-> item.text,
         sections    |-> OrNull(item.sections),
         color       |-> PURPLE]))

\* The month-wide branch's single event.
monthEvent(item, cfg, tz) ==
    LetIn(hijriDayToGregorian(cfg, 1), LAMBDA start :
    LetIn(plusDays(hijriDayToGregorian(cfg, cfg.length), 1), LAMBDA endExclusive :
        [id          |-> item.id,
         title       |-> OrElse(item.label, item.hijri_month),
         startISO    |-> toISO(start, tz),
         endISO      |-> toISO(endExclusive, tz),
         allDay      |-> TRUE,
         description |-> item.text,
         sections    |-> OrNull(item.sections),
         color       |-> PURPLE]))

\* The weekday branch's event of lunar day d.
weekdayEvent(item, cfg, tz, coords, d) ==
    LetIn(hijriDayToGregorian(cfg, d), LAMBDA g :
    LetIn(getPrayerTimesAccurate(g, coords), LAMBDA pt :
        [id          |-> item.id \o "_d" \o ToString(d),
         title       |-> OrElse(item.label, getOrdinal(d) \o " Day"),
         startISO    |-> toISO(pt.fajr, tz),
         endISO      |-> toISO(pt.maghrib, tz),
         allDay      |-> FALSE,
         description |-> item.text,
         sections    |-> OrNull(item.sections),
         color       |-> GREEN]))

\* nightEvent placed on the civil date of the lunar day itself
nightEventSameDay(item, cfg, tz, d) ==
    LetIn(hijriDayToGregorian(cfg, d), LAMBDA gDay :
        [id          |-> item.id \o "_night_" \o ToString(d),
         title       |-> OrElse(item.label, getOrdinal(d) \o " Night"),
         startISO    |-> toISO(startOfDay(gDay), tz),
         endISO      |-> toISO(endOfDay(gDay), tz),
         allDay      |-> TRUE,
         description |-> item.text,
         sections    |-> OrNull(item.sections),
         color       |-> BLUE])

\* The night branch's event of lunar day d.
nightEvent(item, cfg, tz, d) ==
    LetIn(hijriDayToGregorian(cfg, d), LAMBDA gDay :
    LetIn(plusDays(gDay, -1), LAMBDA eveDay :
        [id          |-> item.id \o "_night_" \o ToString(d),
         title       |-> OrElse(item.label, getOrdinal(d) \o " Night"),
         startISO    |-> toISO(startOfDay(eveDay), tz),
         endISO      |-> toISO(endOfDay(eveDay), tz),
         allDay      |-> TRUE,
         description |-> item.text,
         sections    |-> OrNull(item.sections),
         color       |-> BLUE]))

\* dayEvent asking the provider for the eve, as the night branch computes it
dayEventOfEve(item, cfg, tz, coords, d) ==
    LetIn(plusDays(hijriDayToGregorian(cfg, d), -1), LAMBDA gDay :
    LetIn(getPrayerTimesAccurate(gDay, coords), LAMBDA pt :
        [id          |-> item.id \o "_day_" \o ToString(d),
         title       |-> OrElse(item.label, getOrdinal(d) \o " Day"),
         startISO    |-> toISO(pt.fajr, tz),
         endISO      |-> toISO(pt.maghrib, tz),
         allDay      |-> FALSE,
         description |-> item.text,
         sections    |-> OrNull(item.sections),
         color       |-> GREEN]))

\* The day branch's event of lunar day d.
dayEvent(item, cfg, tz, coords, d) ==
    LetIn(hijriDayToGregorian(cfg, d), LAMBDA gDay :
    LetIn(getPrayerTimesAccurate(gDay, coords), LAMBDA pt :
        [id          |-> item.id \o "_day_" \o ToString(d),
         title       |-> OrElse(item.label, getOrdinal(d) \o " Day"),
         startISO    |-> toISO(pt.fajr, tz),
         endISO      |-> toISO(pt.maghrib, tz),
         allDay      |-> FALSE,
         description |-> item.text,
         sections    |-> OrNull(item.sections),
         color       |-> GREEN]))

\* allDayEvent ending at the end of the civil date, as the night branch ends
allDayEventToEndOfDay(item, cfg, tz, d) ==
    LetIn(hijriDayToGregorian(cfg, d), LAMBDA gDay :
        [id          |-> item.id \o "_allday_" \o ToString(d),
         title       |-> OrElse(item.label, getOrdinal(d) \o " Day"),
         startISO    |-> toISO(startOfDay(gDay), tz),
         endISO      |-> toISO(endOfDay(gDay), tz),
         allDay      |-> TRUE,
         description |-> item.text,
         sections    |-> OrNull(item.sections),
         color       |-> PURPLE])

\* The day_and_night fallback's event of lunar day d.
allDayEvent(item, cfg, tz, d) ==
    LetIn(hijriDayToGregorian(cfg, d), LAMBDA gDay :
        [id          |-> item.id \o "_allday_" \o ToString(d),
         title       |-> OrElse(item.label, getOrdinal(d) \o " Day"),
         startISO    |-> toISO(startOfDay(gDay), tz),
         endISO      |-> toISO(startOfDay(plusDays(gDay, 1)), tz),
         allDay      |-> TRUE,
         description |-> item.text,
         sections    |-> OrNull(item.sections),
         color       |-> PURPLE])

\* const target = new Set((item.weekdays ?? []).map(weekdayToLuxon))
targetWeekdays(item) ==
    {weekdayToLuxon(w) : w \in (IF item.weekdays = Null THEN {} ELSE item.weekdays[1])}

\* target.has(g.weekday) for g = hijriDayToGregorian(cfg, d); the weekday of
\* an invalid DateTime is NaN, which no set of weekday numbers has.
onTargetWeekday(cfg, target, d) ==
    LetIn(hijriDayToGregorian(cfg, d), LAMBDA g :
        g.valid /\ weekdayOf(g) \in target)


\* weekdayDays with the loop kept inside the rule's start_day..end_day
weekdayDaysInRange(item, cfg) ==
    LetIn(targetWeekdays(item), LAMBDA target :
        SelectSeq([d \in 1..cfg.length |-> d],
                  LAMBDA d : /\ onTargetWeekday(cfg, target, d)
                             /\ item.start_day = Null \/ d >= item.start_day[1]
                             /\ item.end_day = Null \/ d <= item.end_day[1]))

\* The days d = 1..monthLen of the weekday branch's loop that push an event.
weekdayDays(item, cfg) ==
    LetIn(targetWeekdays(item), LAMBDA target :
        SelectSeq([d \in 1..cfg.length |-> d],
                  LAMBDA d : onTargetWeekday(cfg, target, d)))

\* The days d = startDay..endDay of the range/specific loops.
rangeDays(item, cfg) ==
    IF SkipsStartDay(item.start_day) THEN <<>>
    ELSE LetIn(ClampStart(item.start_day, cfg.length), LAMBDA startDay :
         LetIn(ClampEnd(item.end_day, startDay, cfg.length), LAMBDA endDay :
             [k \in 1..(endDay - startDay + 1) |-> startDay + k - 1]))

\* pushedDays with the month-wide branch pushing inside a loop over the days
pushedDaysPerDay(item, cfg) ==
    IF IsMonthWide(item) THEN [d \in 1..cfg.length |-> 0]
    ELSE IF IsWeekday(item) THEN weekdayDays(item, cfg)
    ELSE rangeDays(item, cfg)

\* The lunar days whose loop iteration pushes an event for the item, in loop
\* order (<<0>> stands for the month-wide branch, which has no loop).
pushedDays(item, cfg) ==
    IF IsMonthWide(item) THEN <<0>>
    ELSE IF IsWeekday(item) THEN weekdayDays(item, cfg)
    ELSE rangeDays(item, cfg)

\* pushedEvent with the all-day fallback given the day branch's color
pushedEventGreenFallback(item, cfg, tz, coords, d) ==
    IF IsMonthWide(item) THEN monthEvent(item, cfg, tz)
    ELSE IF IsWeekday(item) THEN weekdayEvent(item, cfg, tz, coords, d)
    ELSE IF item.period = "night" THEN nightEvent(item, cfg, tz, d)
    ELSE IF item.period = "day" THEN dayEvent(item, cfg, tz, coords, d)
    ELSE [allDayEvent(item, cfg, tz, d) EXCEPT !.color = GREEN]

\* The event the item's branch pushes for lunar day d.
pushedEvent(item, cfg, tz, coords, d) ==
    IF IsMonthWide(item) THEN monthEvent(item, cfg, tz)
    ELSE IF IsWeekday(item) THEN weekdayEvent(item, cfg, tz, coords, d)
    ELSE IF item.period = "night" THEN nightEvent(item, cfg, tz, d)
    ELSE IF item.period = "day" THEN dayEvent(item, cfg, tz, coords, d)
    ELSE allDayEvent(item, cfg, tz, d)

\* lookupConfig with a default anchor for a month that has none
lookupConfigOrDefault(monthConfigs, item) ==
    LetIn(normMonth(item.hijri_month), LAMBDA key :
        IF key \in DOMAIN monthConfigs THEN <<monthConfigs[key]>>
        ELSE <<[startDateISO |-> "2024-03-11", length |-> 30]>>)

\* const cfg = monthConfigs[normMonth(item.hijri_month)]; Null when undefined
lookupConfig(monthConfigs, item) ==
    LetIn(normMonth(item.hijri_month), LAMBDA key :
        IF key \in DOMAIN monthConfigs THEN <<monthConfigs[key]>> ELSE Null)

\* One iteration of `for (const item of amaal.items)`: the events pushed for
\* items[i], each with the rule index and lunar day that pushed it.
expandItem(items, i, monthConfigs, tz, coords) ==
    LetIn(items[i], LAMBDA item :
    LetIn(lookupConfig(monthConfigs, item), LAMBDA found :
        IF found = Null THEN <<>>
        ELSE LetIn(pushedDays(item, found[1]), LAMBDA days :
                 [k \in 1..Len(days) |->
                    [ev   |-> pushedEvent(item, found[1], tz, coords, days[k]),
                     rule |-> i,
                     day  |-> days[k]]])))

\* The whole loop over amaal.items, up to and including items[n].
RECURSIVE expandLoop(_, _, _, _, _)
expandLoop(items, n, monthConfigs, tz, coords) ==
    IF n = 0 THEN <<>>
    ELSE expandLoop(items, n - 1, monthConfigs, tz, coords)
         \o expandItem(items, n, monthConfigs, tz, coords)

\* dedupKey without the title
dedupKeyOfTimes(ev) == ev.startISO \o "|" \o ev.endISO

\* const key = `${ev.title}|${ev.startISO}|${ev.endISO}`
dedupKey(ev) == ev.title \o "|" \o ev.startISO \o "|" \o ev.endISO

\* events.filter(ev => { if (seen.has(key)) return false; seen.add(key); return true })
RECURSIVE filterUnique(_, _)
filterUnique(evs, seen) ==
    IF evs = <<>> THEN <<>>
    ELSE LetIn(dedupKey(Head(evs)), LAMBDA key :
             IF key \in seen THEN filterUnique(Tail(evs), seen)
             ELSE <<Head(evs)>> \o filterUnique(Tail(evs), seen \cup {key}))

\* What makes the loop throw a TypeError: `for (const item of amaal.items)`
\* on a document without items, normMonth(item.hijri_month) on an item
\* without a month.
throwsTypeError(doc) ==
    \/ "items" \notin DOMAIN doc
    \/ \E i \in 1..Len(doc.items) : "hijri_month" \notin DOMAIN doc.items[i]

\* Array objects are named by numbers.  `[]` and filter() create an object
\* that no live object is.
NewRef(live) == CHOOSE r \in 1..(Cardinality(live) + 1) : r \notin live

\* expandAmaalEvents writing each rule's normalized month back into the rule
expandAmaalEventsInPlace(opts, live) ==
    LetIn(expandLoop(opts.amaal.items, Len(opts.amaal.items),
                     opts.monthConfigs, opts.timezone, opts.coords),
          LAMBDA pushed :
    LetIn([k \in 1..Len(pushed) |-> pushed[k].ev], LAMBDA evs :
    LetIn(NewRef(live), LAMBDA eventsRef :
        [ret    |-> filterUnique(evs, {}),
         ref    |-> NewRef(live \cup {eventsRef}),
         events |-> evs,
         origin |-> [k \in 1..Len(pushed) |-> <<pushed[k].rule, pushed[k].day>>],
         opts   |-> [opts EXCEPT !.amaal.items =
                       [i \in 1..Len(@) |->
                          [@[i] EXCEPT !.hijri_month = normMonth(@)]]]])))

\* expandAmaalEvents(opts), called while the array objects in `live` exist.
\* The result records the returned list (ret) and the array object it is
\* (ref), the local list before the duplicate filter (events) with what
\* pushed each entry (origin), and the arguments as the call leaves them
\* (opts): objects are passed by reference.
expandAmaalEvents(opts, live) ==
    LetIn(expandLoop(opts.amaal.items, Len(opts.amaal.items),
                     opts.monthConfigs, opts.timezone, opts.coords),
          LAMBDA pushed :
    LetIn([k \in 1..Len(pushed) |-> pushed[k].ev], LAMBDA evs :
    LetIn(NewRef(live), LAMBDA eventsRef :
        [ret    |-> filterUnique(evs, {}),
         ref    |-> NewRef(live \cup {eventsRef}),
         events |-> evs,
         origin |-> [k \in 1..Len(pushed) |-> <<pushed[k].rule, pushed[k].day>>],
         opts   |-> opts])))

----------------------------------------------------------------------------
(* src/app/page.tsx *)


\* HIJRI_MONTHS of the page variant that lists the twelve months
HIJRI_MONTHS ==
    <<"Muharram", "Safar", "Rabi al-Awwal", "Rabi al-Thani",
      "Jumada al-Awwal", "Jumada al-Thani", "Rajab", "Shabaan",
      "Ramadan", "Shawwal", "Dhul Qa'dah", "Dhul Hijjah">>

LOCATIONS ==
    [qatar   |-> [name |-> "Qatar", timezone |-> "Asia/Qatar",
                  coords |-> [lat |-> "25.2854", lon |-> "51.531"]],
     toronto |-> [name |-> "Toronto, Canada", timezone |-> "America/Toronto",
                  coords |-> [lat |-> "43.6532", lon |-> "-79.3832"]]]

\* The values a date input hands to updateMonth: empty, or a valid date.
DateInputs == {"", "2024-03-10", "2024-03-11"}

\* The options of the month-length select.
LengthOptions == {29, 30}

\* The patches the month cards pass to updateMonth.
Patches ==
    {[field |-> "startDateISO", value |-> v] : v \in DateInputs}
    \cup {[field |-> "length", value |-> n] : n \in LengthOptions}


\* updateMonth with the patch laid over the defaults instead of over the
\* month's current anchor
updatedConfigsFromDefaults(prev, month, patch) ==
    LetIn(pageNormMonth(month), LAMBDA key :
    LetIn([startDateISO |-> "", length |-> 30], LAMBDA cur :
    LetIn(IF patch.field = "startDateISO"
          THEN [cur EXCEPT !.startDateISO = patch.value]
          ELSE [cur EXCEPT !.length = patch.value], LAMBDA new :
        [k \in DOMAIN prev \cup {key} |-> IF k = key THEN new ELSE prev[k]])))

\* updateMonth's state update: { ...prev, [key]: { ...cur, ...patch } }
updatedConfigs(prev, month, patch) ==
    LetIn(pageNormMonth(month), LAMBDA key :
    LetIn(IF key \in DOMAIN prev THEN prev[key]
          ELSE [startDateISO |-> "", length |-> 30], LAMBDA cur :
    LetIn(IF patch.field = "startDateISO"
          THEN [cur EXCEPT !.startDateISO = patch.value]
          ELSE [cur EXCEPT !.length = patch.value], LAMBDA new :
        [k \in DOMAIN prev \cup {key} |-> IF k = key THEN new ELSE prev[k]])))

\* The array objects alive when the page renders: the dataset's items array
\* and the array the memo holds.
ItemsRef == 1
HeldRef == 2

\* Render with the memo not recomputed for the location it is given
RenderStaleLocation(am, cf, loc) ==
    IF am = Null
    THEN /\ expandedEvents' = <<>>
         /\ listFresh' = (NewRef({ItemsRef, HeldRef}) \notin {ItemsRef, HeldRef})
         /\ amaal' = am
         /\ configs' = cf
         /\ locations' = locations
         /\ UNCHANGED <<events, origin, crashed>>
    ELSE IF throwsTypeError(am[1])
    THEN /\ crashed' = TRUE
         /\ amaal' = am
         /\ configs' = cf
         /\ UNCHANGED <<locations, events, origin, expandedEvents, listFresh>>
    ELSE \E r \in {expandAmaalEvents(
                      [amaal        |-> am[1],
                       monthConfigs |-> cf,
                       timezone     |-> locations[selectedLocation].timezone,
                       coords       |-> locations[selectedLocation].coords],
                      {ItemsRef, HeldRef})} :
            /\ expandedEvents' = r.ret
            /\ listFresh' = (r.ref \notin {ItemsRef, HeldRef})
            /\ events' = r.events
            /\ origin' = r.origin
            /\ amaal' = <<r.opts.amaal>>
            /\ configs' = r.opts.monthConfigs
            /\ locations' = locations
            /\ UNCHANGED crashed

\* The render that follows a state update: `location` is looked up and the
\* useMemo callback runs again (one of its dependencies is a new object).
Render(am, cf, loc) ==
    IF am = Null
    THEN /\ expandedEvents' = <<>>
         /\ listFresh' = (NewRef({ItemsRef, HeldRef}) \notin {ItemsRef, HeldRef})
         /\ amaal' = am
         /\ configs' = cf
         /\ locations' = locations
         /\ UNCHANGED <<events, origin, crashed>>
    ELSE IF throwsTypeError(am[1])
    THEN /\ crashed' = TRUE
         /\ amaal' = am
         /\ configs' = cf
         /\ UNCHANGED <<locations, events, origin, expandedEvents, listFresh>>
    ELSE \E r \in {expandAmaalEvents([amaal        |-> am[1],
                                     monthConfigs |-> cf,
                                     timezone     |-> locations[loc].timezone,
                                     coords       |-> locations[loc].coords],
                                    {ItemsRef, HeldRef})} :
            /\ expandedEvents' = r.ret
            /\ listFresh' = (r.ref \notin {ItemsRef, HeldRef})
            /\ events' = r.events
            /\ origin' = r.origin
            /\ amaal' = <<r.opts.amaal>>
            /\ configs' = r.opts.monthConfigs
            /\ locations' = [locations EXCEPT ![loc].coords = r.opts.coords]
            /\ UNCHANGED crashed


\* A character of \w
IsWordChar(c) ==
    \/ \E i \in 1..Len(Lower) : CharAt(Lower, i) = c \/ CharAt(Upper, i) = c
    \/ IsDigit(c)
    \/ c = "_"

\* t.includes(sub)
includes(t, sub) ==
    \E i \in 1..(Len(t) - Len(sub) + 1) : SubSeq(t, i, i + Len(sub) - 1) = sub

\* /\b\d{1,2}(st|nd|rd|th)\s+<word>\b/i.test(title): the match starts at i,
\* has nd digits and ns white-space characters
testOrdinalWord(title, word) ==
    LetIn(toLowerCase(title), LAMBDA t :
        \E i \in 1..Len(t) : \E nd \in 1..2 : \E ns \in 1..Len(t) :
            LetIn(i + nd + 2 + ns, LAMBDA w :
                /\ w + Len(word) - 1 <= Len(t)
                /\ i = 1 \/ ~IsWordChar(CharAt(t, i - 1))
                /\ \A j \in i..(i + nd - 1) : IsDigit(CharAt(t, j))
                /\ SubSeq(t, i + nd, i + nd + 1) \in {"st", "nd", "rd", "th"}
                /\ \A j \in (i + nd + 2)..(w - 1) : IsSpace(CharAt(t, j))
                /\ SubSeq(t, w, w + Len(word) - 1) = word
                /\ w + Len(word) - 1 = Len(t)
                   \/ ~IsWordChar(CharAt(t, w + Len(word)))))

\* pickEventColor(title, fallback); fallback "" when the argument is left out
pickEventColor(title, fallback) ==
    LetIn(trim(toLowerCase(title)), LAMBDA t :
        IF testOrdinalWord(title, "day") THEN "#059669"
        ELSE IF testOrdinalWord(title, "night") THEN "#2563eb"
        ELSE IF /\ includes(t, "friday") /\ includes(t, "morning")
                /\ includes(t, "quran") \/ includes(t, "qur'an")
             THEN "#059669"
        ELSE IF /\ includes(t, "thursday") /\ includes(t, "night")
                /\ includes(t, "quran") \/ includes(t, "qur'an")
             THEN "#2563eb"
        ELSE IF includes(t, "every day") THEN "#059669"
        ELSE IF includes(t, "every night") THEN "#2563eb"
        ELSE IF fallback # "" THEN fallback ELSE "#e69b00")

\* The events prop the page hands to the calendar grid:
\* expandedEvents.map((e) => ({ ..., backgroundColor: pickEventColor(e.title),
\* borderColor: pickEventColor(e.title), extendedProps: e }))
gridEvents(list) ==
    [k \in 1..Len(list) |->
        [title           |-> list[k].title,
         start           |-> list[k].startISO,
         end             |-> list[k].endISO,
         allDay          |-> list[k].allDay,
         backgroundColor |-> pickEventColor(list[k].title, ""),
         borderColor     |-> pickEventColor(list[k].title, ""),
         extendedProps   |-> list[k]]]

\* The events prop in the page's other variant:
\* backgroundColor: e.color || '#6366f1', borderColor: e.color || '#6366f1'
gridEventsOfColor(list) ==
    [k \in 1..Len(list) |->
        [id              |-> list[k].id,
         title           |-> list[k].title,
         start           |-> list[k].startISO,
         end             |-> list[k].endISO,
         allDay          |-> list[k].allDay,
         backgroundColor |-> OrElse(list[k].color, "#6366f1"),
         borderColor     |-> OrElse(list[k].color, "#6366f1")]]

\* fetch(...).then(r => r.json()).then(data => setAmaal(data)).catch(...):
\* a rejected fetch and a body that does not parse end in the catch handler's
\* alert; a parsed document is set as it is and the page renders with it.
LoadAmaal ==
    /\ loadState = "pending"
    /\ ~crashed
    /\ ~effectPending
    /\ IF response = "json"
       THEN /\ loadState' = "resolved"
            /\ Render(<<file>>, configs, selectedLocation)
       ELSE /\ loadState' = "alerted"
            /\ UNCHANGED <<amaal, configs, locations, events, origin,
                           expandedEvents, listFresh, crashed>>
    /\ UNCHANGED <<response, file, hijriMonths, selectedLocation,
                   displayTimezone, effectPending,
                   ordinalArg, ordinalResult, geocode, bulletsArg, bulletsResult>>

\* What the month card shows for the month: value={cfg?.startDateISO || ""}
\* and value={cfg?.length ?? 30}
shownConfig(cf, month) ==
    LetIn(pageNormMonth(month), LAMBDA key :
        IF key \in DOMAIN cf THEN cf[key]
        ELSE [startDateISO |-> "", length |-> 30])

\* onChange of a month card's date input or length select: the control's
\* value has changed from the one it shows.
UpdateMonth(month, patch) ==
    /\ ~crashed
    /\ ~effectPending
    /\ \E shown \in {shownConfig(configs, month)} :
          IF patch.field = "startDateISO"
          THEN patch.value # shown.startDateISO
          ELSE patch.value # shown.length
    /\ Render(amaal, updatedConfigs(configs, month, patch), selectedLocation)
    /\ UNCHANGED <<response, file, loadState, hijriMonths, selectedLocation,
                   displayTimezone, effectPending,
                   ordinalArg, ordinalResult, geocode, bulletsArg, bulletsResult>>

\* onChange of the location select: setSelectedLocation(e.target.value).
\* The render commits with the display timezone it had; the effect that
\* depends on selectedLocation is left to run.
SelectLocation(loc) ==
    /\ ~crashed
    /\ ~effectPending
    /\ loc # selectedLocation
    /\ selectedLocation' = loc
    /\ Render(amaal, configs, loc)
    /\ effectPending' = TRUE
    /\ UNCHANGED <<response, file, loadState, hijriMonths, displayTimezone,
                   ordinalArg, ordinalResult, geocode, bulletsArg, bulletsResult>>

\* useEffect(() => { setDisplayTimezone(selectedLocation); }, [selectedLocation]):
\* runs after the render that committed the new location, before any other
\* event is handled; the render it causes leaves the memo as it is.
DisplayTimezoneEffect ==
    /\ ~crashed
    /\ effectPending
    /\ displayTimezone' = selectedLocation
    /\ effectPending' = FALSE
    /\ UNCHANGED <<response, file, loadState, crashed, hijriMonths, amaal,
                   configs, selectedLocation, locations, events, origin,
                   expandedEvents, listFresh,
                   ordinalArg, ordinalResult, geocode, bulletsArg, bulletsResult>>


\* The display-timezone select with the calendar expanded anew for the
\* location it names
SelectDisplayTimezoneExpanding(tz) ==
    /\ ~crashed
    /\ ~effectPending
    /\ tz # displayTimezone
    /\ displayTimezone' = tz
    /\ Render(amaal, configs, tz)
    /\ UNCHANGED <<response, file, loadState, hijriMonths, selectedLocation,
                   effectPending,
                   ordinalArg, ordinalResult, geocode, bulletsArg, bulletsResult>>

\* onChange of the display-timezone select: setDisplayTimezone(e.target.value)
SelectDisplayTimezone(tz) ==
    /\ ~crashed
    /\ ~effectPending
    /\ tz # displayTimezone
    /\ displayTimezone' = tz
    /\ UNCHANGED <<response, file, loadState, crashed, hijriMonths, amaal,
                   configs, selectedLocation, locations, events, origin,
                   expandedEvents, listFresh, effectPending,
                   ordinalArg, ordinalResult, geocode, bulletsArg, bulletsResult>>

\* A call getOrdinal(n) on its own.
CallGetOrdinal ==
    /\ ordinalResult = ""
    /\ ordinalResult' = getOrdinal(ordinalArg)
    /\ UNCHANGED <<response, file, loadState, crashed, hijriMonths, amaal,
                   configs, selectedLocation, locations, events, origin,
                   expandedEvents, listFresh, ordinalArg,
                   displayTimezone, effectPending, geocode, bulletsArg, bulletsResult>>

Next ==
    \/ LoadAmaal
    \/ \E i \in 1..Len(hijriMonths) : \E patch \in Patches :
          UpdateMonth(hijriMonths[i], patch)
    \/ \E loc \in DOMAIN LOCATIONS : SelectLocation(loc)
    \/ DisplayTimezoneEffect

\* The page with its display-timezone select.
NextDisplay ==
    \/ Next
    \/ \E tz \in DOMAIN LOCATIONS : SelectDisplayTimezone(tz)

----------------------------------------------------------------------------
(* The datasets the page is served *)


----------------------------------------------------------------------------
(* src/unnamed/part_000: the geocoding route *)

\* No call of the geocoding handler is under way or has ended.
GeocodeIdle == [pc |-> "idle"]

\* Number(x) of a string or of undefined ("undefined"): the number the text
\* denotes, or NaN
IsNumeric(text) ==
    LetIn(IF Len(text) > 0 /\ CharAt(text, 1) = "-" THEN Tail(text) ELSE text,
          LAMBDA u :
        /\ \E i \in 1..Len(u) : IsDigit(CharAt(u, i))
        /\ \A i \in 1..Len(u) : IsDigit(CharAt(u, i)) \/ CharAt(u, i) = "."
        /\ Cardinality({i \in 1..Len(u) : CharAt(u, i) = "."}) <= 1)

Number(x) == IF IsNumeric(x) THEN [number |-> x] ELSE [number |-> "NaN"]

\* encodeURIComponent on the characters the queries are written in
RECURSIVE encodeURIComponent(_)
encodeURIComponent(text) ==
    IF Len(text) = 0 THEN ""
    ELSE (CASE CharAt(text, 1) = " " -> "%20"
            [] CharAt(text, 1) = "&" -> "%26"
            [] CharAt(text, 1) = "," -> "%2C"
            [] OTHER -> CharAt(text, 1))
         \o encodeURIComponent(Tail(text))

\* !q || q.length < 2, without the trim
rejectsQueryUntrimmed(q) == q = Null \/ q[1] = "" \/ Len(q[1]) < 2

\* !q || q.trim().length < 2
rejectsQuery(q) == q = Null \/ q[1] = "" \/ Len(trim(q[1])) < 2

\* The request URL of the upstream search
geocodeUrl(q) ==
    "https://nominatim.openstreetmap.org/search?format=json&limit=5&q="
    \o encodeURIComponent(q)

\* data.map((x) => ({ displayName: x.display_name, lat: Number(x.lat),
\*                    lon: Number(x.lon) }))
geocodeResults(data) ==
    [k \in 1..Len(data) |->
        [displayName |-> data[k].display_name,
         lat         |-> Number(data[k].lat),
         lon         |-> Number(data[k].lon)]]

\* GET up to its await of fetch: the query is refused, or the upstream
\* request is sent.
GeocodeGET ==
    /\ geocode.pc = "called"
    /\ IF rejectsQuery(geocode.q)
       THEN geocode' = [geocode EXCEPT
                !.pc = "returned",
                !.status = 400,
                !.body = [ok |-> FALSE, error |-> "Missing q"]]
       ELSE geocode' = [geocode EXCEPT
                !.pc = "fetching",
                !.sent = <<geocodeUrl(geocode.q[1])>>]
    /\ UNCHANGED <<response, file, loadState, crashed, hijriMonths, amaal,
                   configs, selectedLocation, locations, events, origin,
                   expandedEvents, listFresh, ordinalArg, ordinalResult,
                   displayTimezone, effectPending, bulletsArg, bulletsResult>>

\* GET from the settling of fetch on: a rejected fetch, a body r.json() cannot
\* parse and a parsed body without a map method end the call with an
\* exception (nothing in the handler catches one).
GeocodeFetched ==
    /\ geocode.pc = "fetching"
    /\ IF geocode.upstream.kind = "rejects"
       THEN geocode' = [geocode EXCEPT !.pc = "threw"]
       ELSE IF ~geocode.upstream.ok
       THEN geocode' = [geocode EXCEPT
                !.pc = "returned",
                !.status = 500,
                !.body = [ok |-> FALSE, error |-> "Geocode failed"]]
       ELSE IF geocode.upstream.json # "list"
       THEN geocode' = [geocode EXCEPT !.pc = "threw"]
       ELSE geocode' = [geocode EXCEPT
                !.pc = "returned",
                !.status = 200,
                !.body = [ok |-> TRUE,
                          results |-> geocodeResults(geocode.upstream.data)]]
    /\ UNCHANGED <<response, file, loadState, crashed, hijriMonths, amaal,
                   configs, selectedLocation, locations, events, origin,
                   expandedEvents, listFresh, ordinalArg, ordinalResult,
                   displayTimezone, effectPending, bulletsArg, bulletsResult>>

NextGeocode == GeocodeGET \/ GeocodeFetched


----------------------------------------------------------------------------
(* src/app/page.tsx: renderNestedBullets *)

\* renderNestedBullets has returned null, as it does for the empty list.
NoBullets == [pc |-> "returned", isNull |-> TRUE, nodes |-> <<>>]

\* bullets.filter((b) => b && b.text && b.text.trim().length > 0)
validBullets(bullets) ==
    SelectSeq(bullets, LAMBDA b : b # Null /\ b.text # "" /\ Len(trim(b.text)) > 0)

\* while (stack.length > lvl) stack.pop(); if (stack.length === 0) stack.push(root)
\* The stack holds node numbers, 0 for the root.
poppedTo(stack, lvl) ==
    LetIn(IF Len(stack) > lvl THEN SubSeq(stack, 1, lvl) ELSE stack, LAMBDA st :
        IF Len(st) = 0 THEN <<0>> ELSE st)

\* The loop over validBullets from bullet k on: node k gets the level
\* Math.max(1, b.level || 1) and becomes the last child of the stack's top.
RECURSIVE buildTree(_, _, _, _)
buildTree(valid, k, stack, nodes) ==
    IF k > Len(valid) THEN nodes
    ELSE LetIn(Max(1, IF valid[k].level = 0 THEN 1 ELSE valid[k].level), LAMBDA lvl :
         LetIn(poppedTo(stack, lvl), LAMBDA st :
             buildTree(valid, k + 1, Append(st, k),
                       Append(nodes, [level  |-> lvl,
                                      text   |-> valid[k].text,
                                      parent |-> st[Len(st)]]))))

\* renderNestedBullets(bullets): null, or the rendering of root.children,
\* which nests the nodes as the tree does.
renderNestedBullets(bullets) ==
    IF bullets = Null \/ Len(bullets) = 0 THEN NoBullets
    ELSE LetIn(validBullets(bullets), LAMBDA valid :
        IF Len(valid) = 0 THEN NoBullets
        ELSE [pc |-> "returned", isNull |-> FALSE,
              nodes |-> buildTree(valid, 1, <<0>>, <<>>)])

\* A call renderNestedBullets(bullets) on its own.
CallRenderNestedBullets ==
    /\ bulletsResult.pc = "called"
    /\ bulletsResult' = renderNestedBullets(bulletsArg)
    /\ UNCHANGED <<response, file, loadState, crashed, hijriMonths, amaal,
                   configs, selectedLocation, locations, events, origin,
                   expandedEvents, listFresh, ordinalArg, ordinalResult,
                   displayTimezone, effectPending, geocode, bulletsArg>>

Rule(month, kind, period, sd, ed, wds, label) ==
    [id |-> "", hijri_month |-> month, label |-> label, period |-> period,
     rule_kind |-> kind, start_day |-> sd, end_day |-> ed, weekdays |-> wds,
     text |-> "", sections |-> "undefined"]

\* The rules get the ids r1, r2, .. and a text and sections of their own.
Dataset(rules) ==
    [meta  |-> "meta",
     items |-> [i \in 1..Len(rules) |->
                  [rules[i] EXCEPT
                     !.id = "r" \o ToString(i),
                     !.text = "text " \o ToString(i),
                     !.sections = IF i % 2 = 0 THEN "undefined"
                                  ELSE "{intro:" \o ToString(i) \o "}"]]]

MaxRules == 2

GeneralRules ==
    { Rule("Ramadan", "month_all", "day_and_night", Null, Null, Null, ""),
      Rule(" RAMADAN  ", "month_any_time", "night", <<1>>, Null, Null, "Laylat"),
      Rule("Ramadan", "night_general", "night", <<15>>, <<15>>, Null, ""),
      Rule("Ramadan", "specific", "night", <<15>>, <<15>>, Null, "Laylat"),
      Rule("Ramadan", "range", "day", <<4>>, <<5>>, Null, ""),
      Rule("ramadan", "weekday", "day", Null, Null, <<{"THU"}>>, ""),
      Rule("Shawwal", "unspecified", "undefined", <<29>>, <<30>>, Null, "") }

RECURSIVE SeqsUpTo(_, _)
SeqsUpTo(S, n) ==
    IF n = 0 THEN {<<>>}
    ELSE LET shorter == SeqsUpTo(S, n - 1)
         IN  shorter \cup {Append(q, x) : q \in shorter, x \in S}

GeneralFiles == {Dataset(q) : q \in SeqsUpTo(GeneralRules, MaxRules)}

StartDays == {Null, <<-3>>, <<0>>, <<1>>, <<15>>, <<30>>, <<31>>}
EndDays == {Null, <<0>>, <<15>>, <<16>>, <<29>>, <<99>>}

DayKinds == {"range", "unspecified"}
Periods == {"night", "day", "day_and_night", "undefined"}

DayFiles ==
    {Dataset(<<Rule("Ramadan", "range", period, sd, ed, Null, "")>>) :
        period \in Periods, sd \in StartDays, ed \in EndDays}
    \cup
    {Dataset(<<Rule("Ramadan", kind, period, <<15>>, ed, Null, label)>>) :
        kind \in DayKinds, period \in Periods, ed \in {Null, <<15>>},
        label \in {"", "Laylat"}}

WeekFiles ==
    {Dataset(<<Rule("Ramadan", kind, "day", Null, Null, wds, label)>>) :
        kind \in {"weekday", "weekday_multi"},
        wds \in {Null, <<{}>>, <<{"THU"}>>, <<{"MON", "THU"}>>, <<{"XYZ"}>>,
                 <<{"FRI", "XYZ"}>>, <<{"SUN"}>>},
        label \in {"", "Jumuah"}}
    \cup
    {Dataset(<<Rule("Ramadan", "weekday", period, sd, ed, <<{"THU"}>>, "")>>) :
        period \in Periods, sd \in {Null, <<3>>}, ed \in {Null, <<4>>}}

\* Datasets of one or two rules of every branch, with start days at and
\* beyond the month's end, under rule ids of the dataset's own choosing.
MixedRules ==
    { Rule("Ramadan", "month_all", "day_and_night", Null, Null, Null, ""),
      Rule("Ramadan", "range", "day", <<29>>, Null, Null, ""),
      Rule("Ramadan", "range", "night", <<30>>, Null, Null, ""),
      Rule("Ramadan", "unspecified", "undefined", <<1>>, <<2>>, Null, ""),
      Rule("Ramadan", "weekday", "day", Null, Null, <<{"THU"}>>, ""),
      Rule("Ramadan", "range", "day_and_night", <<31>>, <<99>>, Null, "") }

MixedIds == {<<"a", "b">>, <<"a", "a_day_29">>, <<"a_d5", "a">>}

WithIds(doc, ids) ==
    [doc EXCEPT !.items = [i \in 1..Len(@) |-> [@[i] EXCEPT !.id = ids[i]]]]

MixedFiles ==
    {WithIds(Dataset(q), ids) :
        q \in {<<p>> : p \in MixedRules} \cup (MixedRules \X MixedRules),
        ids \in MixedIds}


InitPage ==
    /\ loadState = "pending"
    /\ crashed = FALSE
    /\ amaal = Null
    /\ configs = <<>>
    /\ selectedLocation = "qatar"
    /\ displayTimezone = "qatar"
    /\ effectPending = FALSE
    /\ locations = LOCATIONS
    /\ events = <<>>
    /\ origin = <<>>
    /\ expandedEvents = <<>>
    /\ listFresh = TRUE
    /\ ordinalArg = 0
    /\ ordinalResult = "0th"
    /\ geocode = GeocodeIdle
    /\ bulletsArg = <<>>
    /\ bulletsResult = NoBullets

Init ==
    /\ response = "json"
    /\ file \in GeneralFiles
    /\ hijriMonths = <<"Ramadan">>
    /\ InitPage

InitDays ==
    /\ response = "json"
    /\ file \in DayFiles
    /\ hijriMonths = <<"Ramadan">>
    /\ InitPage

InitWeek ==
    /\ response = "json"
    /\ file \in WeekFiles
    /\ hijriMonths = <<"Ramadan">>
    /\ InitPage

InitMixed ==
    /\ response = "json"
    /\ file \in MixedFiles
    /\ hijriMonths = <<"Ramadan">>
    /\ InitPage


\* Spellings of a month name that differ from it in letter case, in leading
\* and trailing white space and in the length of runs of inner white space.
UpperChar(c) ==
    IF \E i \in 1..Len(Lower) : CharAt(Lower, i) = c
    THEN CharAt(Upper, CHOOSE i \in 1..Len(Lower) : CharAt(Lower, i) = c)
    ELSE c

RECURSIVE toUpperCase(_)
toUpperCase(text) ==
    IF Len(text) = 0 THEN "" ELSE UpperChar(CharAt(text, 1)) \o toUpperCase(Tail(text))

RECURSIVE Widened(_)
Widened(text) ==
    IF Len(text) = 0 THEN ""
    ELSE (IF CharAt(text, 1) = " " THEN " \t " ELSE CharAt(text, 1))
         \o Widened(Tail(text))

Spellings(month) ==
    {month, toUpperCase(month), "  " \o month \o "\t", "\n" \o Widened(toLowerCase(month))}

\* The month cards a run edits: two neighbours of the twelve, with and
\* without inner white space and apostrophes in their names.
MonthPairs == {<<HIJRI_MONTHS[2 * k - 1], HIJRI_MONTHS[2 * k]>> : k \in {2, 5, 6}}

\* Datasets of one month-wide rule for a month of the pair, in every spelling.
MonthFiles(pair) ==
    {Dataset(<<Rule(v, "month_all", "day_and_night", Null, Null, Null, "")>>) :
        v \in Spellings(pair[1]) \cup Spellings(pair[2])}

InitMonths ==
    /\ response = "json"
    /\ hijriMonths \in MonthPairs
    /\ file \in MonthFiles(hijriMonths)
    /\ InitPage

\* The ways the fetch can end, and documents with and without a well-formed
\* items list.
Responses == {"rejected", "notJson", "json"}

LoadFiles ==
    { Dataset(<<Rule("Ramadan", "range", "day", <<4>>, <<5>>, Null, "")>>),
      Dataset(<<>>),
      [meta |-> "meta"],
      [meta |-> "meta", items |-> <<[id |-> "r1", label |-> "Laylat"]>>] }

InitLoad ==
    /\ response \in Responses
    /\ file \in LoadFiles
    /\ hijriMonths = <<"Ramadan">>
    /\ InitPage

\* The day numbers getOrdinal is tried on.
MaxOrdinal == 130

InitOrdinal ==
    /\ response = "json"
    /\ file = Dataset(<<>>)
    /\ loadState = "pending"
    /\ crashed = FALSE
    /\ hijriMonths = <<"Ramadan">>
    /\ amaal = Null
    /\ configs = <<>>
    /\ selectedLocation = "qatar"
    /\ locations = LOCATIONS
    /\ events = <<>>
    /\ origin = <<>>
    /\ expandedEvents = <<>>
    /\ listFresh = TRUE
    /\ ordinalArg \in 1..MaxOrdinal
    /\ ordinalResult = ""
    /\ displayTimezone = "qatar"
    /\ effectPending = FALSE
    /\ geocode = GeocodeIdle
    /\ bulletsArg = <<>>
    /\ bulletsResult = NoBullets


\* The q parameter of a request: absent, or the text it carries.
Queries ==
    {Null, <<"">>, <<" ">>, <<"a">>, <<" a ">>, <<"  ">>, <<"ab">>, <<" ab">>,
     <<"Doha, Qatar">>, <<"a&b">>}

\* A place of the upstream answer.
Place(name, lat, lon) == [display_name |-> name, lat |-> lat, lon |-> lon]

\* The most places the upstream answers a search of limit=5 with.
MaxPlaces == 5

PlaceList(n) ==
    [k \in 1..n |->
        IF k = 2 THEN [display_name |-> "Doha", lat |-> "undefined", lon |-> "51.53"]
        ELSE Place("Place " \o ToString(k), ToString(24 + k) \o ".5", "-79.38")]

\* How the upstream exchange ends: the fetch rejects, or it resolves to a
\* response of some status whose body is not JSON, is JSON that is no list,
\* or is a list of places.
Upstreams ==
    {[kind |-> "rejects"]}
    \cup {[kind |-> "resolves", ok |-> FALSE, json |-> j, data |-> <<>>] :
            j \in {"none", "object"}}
    \cup {[kind |-> "resolves", ok |-> TRUE, json |-> j, data |-> <<>>] :
            j \in {"none", "object", "null"}}
    \cup {[kind |-> "resolves", ok |-> TRUE, json |-> "list", data |-> PlaceList(n)] :
            n \in 0..MaxPlaces}

InitGeocode ==
    /\ response = "json"
    /\ file = Dataset(<<>>)
    /\ loadState = "pending"
    /\ crashed = FALSE
    /\ hijriMonths = <<"Ramadan">>
    /\ amaal = Null
    /\ configs = <<>>
    /\ selectedLocation = "qatar"
    /\ displayTimezone = "qatar"
    /\ effectPending = FALSE
    /\ locations = LOCATIONS
    /\ events = <<>>
    /\ origin = <<>>
    /\ expandedEvents = <<>>
    /\ listFresh = TRUE
    /\ ordinalArg = 0
    /\ ordinalResult = "0th"
    /\ bulletsArg = <<>>
    /\ bulletsResult = NoBullets
    /\ \E q \in Queries : \E u \in Upstreams :
          geocode = [pc |-> "called", q |-> q, upstream |-> u, sent |-> Null,
                     status |-> 0, body |-> Null]


\* The bullet lists renderNestedBullets is tried on: up to MaxBullets bullets
\* of the levels 0 (what `b.level || 1` takes for 1) to MaxLevel, with texts
\* that are blank or not.
MaxBullets == 3
MaxLevel == 3
BulletTexts == {"a", "b", " "}

BulletLists ==
    SeqsUpTo({[level |-> l, text |-> t] : l \in 0..MaxLevel, t \in BulletTexts},
             MaxBullets)

InitBullets ==
    /\ response = "json"
    /\ file = Dataset(<<>>)
    /\ loadState = "pending"
    /\ crashed = FALSE
    /\ hijriMonths = <<"Ramadan">>
    /\ amaal = Null
    /\ configs = <<>>
    /\ selectedLocation = "qatar"
    /\ displayTimezone = "qatar"
    /\ effectPending = FALSE
    /\ locations = LOCATIONS
    /\ events = <<>>
    /\ origin = <<>>
    /\ expandedEvents = <<>>
    /\ listFresh = TRUE
    /\ ordinalArg = 0
    /\ ordinalResult = "0th"
    /\ geocode = GeocodeIdle
    /\ bulletsArg \in BulletLists
    /\ bulletsResult = [pc |-> "called"]

Spec == Init /\ [][Next]_vars
SpecDays == InitDays /\ [][Next]_vars
SpecWeek == InitWeek /\ [][Next]_vars
SpecMixed == InitMixed /\ [][Next]_vars
SpecLoad == InitLoad /\ [][Next]_vars
SpecMonths == InitMonths /\ [][Next]_vars

\* The effect of a committed render is run: React flushes the pending effects
\* of a render before it handles another event.
SpecDisplay == InitLoad /\ [][NextDisplay]_vars /\ WF_vars(DisplayTimezoneEffect)
SpecOrdinal == InitOrdinal /\ [][CallGetOrdinal]_vars
SpecGeocode == InitGeocode /\ [][NextGeocode]_vars
SpecBullets == InitBullets /\ [][CallRenderNestedBullets]_vars

----------------------------------------------------------------------------
(* What the claims speak of *)

Loaded == amaal # Null
Items == amaal[1].items
Location == locations[selectedLocation]

IsDefaultPath(item) == ~IsMonthWide(item) /\ ~IsWeekday(item)

\* The rule's lunar month has an anchor.
Anchored(item) == normMonth(item.hijri_month) \in DOMAIN configs
AnchorOf(item) == configs[normMonth(item.hijri_month)]

\* The anchor has a start date, so that civil dates exist.
Dated(item) == Anchored(item) /\ fromISO(AnchorOf(item).startDateISO).valid

\* The lunar days for which rule i pushed an event, in push order.
DaysPushedBy(i) ==
    LetIn(SelectSeq(origin, LAMBDA o : o[1] = i), LAMBDA mine :
        [k \in 1..Len(mine) |-> mine[k][2]])

CountIn(seq, x) == Cardinality({k \in 1..Len(seq) : seq[k] = x})

\* The civil date of lunar day d of the anchor, offset by `shift` days, as
\* a day count.
CivilDay(cfg, d, shift) == fromISO(cfg.startDateISO).days + (d - 1) + shift

\* The ISO text of a wall-clock time on a civil day.
IsoAt(days, time) ==
    toISO([valid |-> TRUE, days |-> days, time |-> time], Location.timezone)

----------------------------------------------------------------------------
C2_PresentStartDayIsClamped ==
    Loaded =>
        \A i \in 1..Len(Items) :
            (IsDefaultPath(Items[i]) /\ Anchored(Items[i])
             /\ Items[i].start_day # Null) =>
                /\ DaysPushedBy(i) # <<>>
                /\ DaysPushedBy(i)[1] =
                       Max(1, Min(Items[i].start_day[1], AnchorOf(Items[i]).length))
                /\ (Items[i].start_day = <<0>> /\ Items[i].end_day = <<99>>
                    /\ AnchorOf(Items[i]).length = 29)
                       => DaysPushedBy(i) = [d \in 1..29 |-> d]

(* C3: a default-path rule of an anchored month whose start day the         *)
(* expander resolves to s pushes exactly one event for each lunar day d     *)
(* with s <= d <= e and none for another day, where e is the month length   *)
(* when the end day is absent and max(s, min(endDay, length)) otherwise.    *)
ResolvesStartDay(item) ==
    IsDefaultPath(item) /\ Anchored(item) /\ ~SkipsStartDay(item.start_day)

ResolvedStart(item) ==
    Max(1, Min(item.start_day[1], AnchorOf(item).length))

ResolvedEnd(item) ==
    IF item.end_day = Null THEN AnchorOf(item).length
    ELSE Max(ResolvedStart(item), Min(item.end_day[1], AnchorOf(item).length))

C3_OneEventPerCoveredDay ==
    Loaded =>
        \A i \in 1..Len(Items) :
            ResolvesStartDay(Items[i]) =>
                \E s \in {ResolvedStart(Items[i])} :
                \E e \in {ResolvedEnd(Items[i])} :
                \E days \in {DaysPushedBy(i)} :
                    /\ \A d \in -5..105 :
                          CountIn(days, d) = IF s <= d /\ d <= e THEN 1 ELSE 0
                    /\ \A k \in 1..Len(days) :
                          days[k] \in 1..AnchorOf(Items[i]).length
                    /\ (Items[i].end_day # Null /\ Items[i].end_day[1] < s)
                           => days = <<s>>
                    /\ (Items[i].end_day # Null
                        /\ Items[i].end_day[1] > AnchorOf(Items[i]).length)
                           => days[Len(days)] = AnchorOf(Items[i]).length
                    /\ \A k \in 1..Len(origin) :
                          origin[k][1] = i =>
                              events[k].id \in
                                  {Items[i].id \o infix \o ToString(origin[k][2]) :
                                      infix \in {"_night_", "_day_", "_allday_"}}

C3_Witness ==
    /\ Loaded
    /\ \E i \in 1..Len(Items) :
          /\ ResolvesStartDay(Items[i])
          /\ Items[i].end_day # Null
          /\ Items[i].end_day[1] < ResolvedStart(Items[i])
          /\ Len(DaysPushedBy(i)) = 1

(* C4: every event of a night rule, for each lunar day d it covers, is an   *)
(* all-day event from the start to the end of the day before the civil date *)
(* of d, so never reaching that civil date, and is titled with the label or *)
(* "<ordinal of d> Night"; with the anchor 2024-03-11 of length 30, a night *)
(* rule for day 15 gives exactly one event, on 2024-03-24, "15th Night".    *)
IsNightRule(item) == IsDefaultPath(item) /\ item.period = "night"

DateText(iso) == SubSeq(iso, 1, 10)

C4_NightEventOnPrecedingCivilDay ==
    Loaded =>
        /\ \A k \in 1..Len(origin) :
              \E item \in {Items[origin[k][1]]} :
              \E d \in {origin[k][2]} :
                  (IsNightRule(item) /\ Dated(item)) =>
                      \E eve \in {CivilDay(AnchorOf(item), d, -1)} :
                          /\ events[k].allDay
                          /\ events[k].startISO = IsoAt(eve, "00:00:00.000")
                          /\ events[k].endISO = IsoAt(eve, "23:59:59.999")
                          /\ DateText(events[k].endISO) #
                                 DateText(IsoAt(eve + 1, "00:00:00.000"))
                          /\ events[k].title =
                                 IF item.label # "" THEN item.label
                                 ELSE getOrdinal(d) \o " Night"
        /\ \A i \in 1..Len(Items) :
              (/\ IsNightRule(Items[i])
               /\ Items[i].start_day = <<15>> /\ Items[i].end_day = <<15>>
               /\ Items[i].label = ""
               /\ Anchored(Items[i])
               /\ AnchorOf(Items[i]) = [startDateISO |-> "2024-03-11", length |-> 30])
                  => /\ DaysPushedBy(i) = <<15>>
                     /\ \A k \in 1..Len(origin) :
                           origin[k][1] = i =>
                               /\ DateText(events[k].startISO) = "2024-03-24"
                               /\ DateText(events[k].endISO) = "2024-03-24"
                               /\ events[k].title = "15th Night"

C4_Witness ==
    /\ Loaded
    /\ \E k \in 1..Len(origin) :
          /\ IsNightRule(Items[origin[k][1]])
          /\ AnchorOf(Items[origin[k][1]]) = [startDateISO |-> "2024-03-11", length |-> 30]
          /\ origin[k][2] = 15
          /\ events[k].title = "15th Night"
          /\ \E j \in 1..Len(expandedEvents) : expandedEvents[j] = events[k]

(* C5: the event of a month_all or month_any_time rule of an anchored month *)
(* is an all-day event from the start of the anchor's start date to the     *)
(* start of the day `length` days later; for the anchor 2024-03-11 of       *)
(* length 30 it runs from 2024-03-11T00:00 to 2024-04-10T00:00.             *)
C5_MonthWideEventSpansTheMonth ==
    Loaded =>
        \A k \in 1..Len(origin) :
            \E item \in {Items[origin[k][1]]} :
                (IsMonthWide(item) /\ Dated(item)) =>
                    \E first \in {CivilDay(AnchorOf(item), 1, 0)} :
                        /\ events[k].allDay
                        /\ events[k].startISO = IsoAt(first, "00:00:00.000")
                        /\ events[k].endISO =
                               IsoAt(first + AnchorOf(item).length, "00:00:00.000")
                        /\ AnchorOf(item) = [startDateISO |-> "2024-03-11", length |-> 30]
                               => /\ SubSeq(events[k].startISO, 1, 16) = "2024-03-11T00:00"
                                  /\ SubSeq(events[k].endISO, 1, 16) = "2024-04-10T00:00"

C5_Witness ==
    /\ Loaded
    /\ \E k \in 1..Len(origin) :
          /\ IsMonthWide(Items[origin[k][1]])
          /\ AnchorOf(Items[origin[k][1]]) = [startDateISO |-> "2024-03-11", length |-> 30]
          /\ SubSeq(events[k].endISO, 1, 16) = "2024-04-10T00:00"

(* C6: a month_all rule of an anchored month pushes exactly one event, for  *)
(* either month length; the returned list holds exactly that one event of   *)
(* the rule unless an earlier pushed event has the same title, start and    *)
(* end, and then it holds none.                                             *)
IsMonthAll(item) == item.rule_kind = "month_all" /\ Anchored(item)

SameTriple(a, b) ==
    a.title = b.title /\ a.startISO = b.startISO /\ a.endISO = b.endISO

ReturnedOf(item) ==
    Cardinality({k \in 1..Len(expandedEvents) : expandedEvents[k].id = item.id})

WeekdayCodes == {"MON", "TUE", "WED", "THU", "FRI", "SAT", "SUN"}

\* The weekday of a civil day count (day 0, 1970-01-01, was a Thursday).
WeekdayCode(days) ==
    <<"THU", "FRI", "SAT", "SUN", "MON", "TUE", "WED">>[(days % 7) + 1]

WeekdaysOf(item) == IF item.weekdays = Null THEN {} ELSE item.weekdays[1]

C7_WeekdayRuleOneEventPerMatchingDay ==
    Loaded =>
        \A i \in 1..Len(Items) :
            (IsWeekday(Items[i]) /\ ~IsMonthWide(Items[i]) /\ Anchored(Items[i])) =>
                \E cfg \in {AnchorOf(Items[i])} :
                \E W \in {WeekdaysOf(Items[i])} :
                \E days \in {DaysPushedBy(i)} :
                    /\ \A d \in -5..105 :
                          CountIn(days, d) =
                              IF /\ d \in 1..cfg.length
                                 /\ Dated(Items[i])
                                 /\ WeekdayCode(CivilDay(cfg, d, 0)) \in W
                              THEN 1 ELSE 0
                    /\ (W \cap WeekdayCodes = {}) => days = <<>>
                    /\ \A k \in 1..Len(origin) :
                          origin[k][1] = i =>
                              DateText(events[k].startISO) =
                                  DateText(IsoAt(CivilDay(cfg, origin[k][2], 0),
                                                 "00:00:00.000"))
                    /\ (W = {"THU"} /\ cfg = [startDateISO |-> "2024-03-10", length |-> 30])
                           => /\ Len(days) \in {4, 5}
                              /\ \A k \in 1..Len(days) :
                                    WeekdayCode(CivilDay(cfg, days[k], 0)) = "THU"

C7_Witness ==
    /\ Loaded
    /\ \E i \in 1..Len(Items) :
          /\ IsWeekday(Items[i])
          /\ WeekdaysOf(Items[i]) = {"THU"}
          /\ Anchored(Items[i])
          /\ AnchorOf(Items[i]) = [startDateISO |-> "2024-03-10", length |-> 30]
          /\ DaysPushedBy(i) = <<5, 12, 19, 26>>
          /\ Len(expandedEvents) = 4

(* C8: the events are pushed in rule order and, within a rule, in ascending *)
(* lunar day; the returned list is the pushed list, in that order, without  *)
(* exactly the events that have the title, start and end of an earlier      *)
(* pushed event.                                                            *)
IsRepeat(k) == \E j \in 1..(k - 1) : SameTriple(events[j], events[k])

FirstOccurrences ==
    SelectSeq([k \in 1..Len(events) |-> k], LAMBDA k : ~IsRepeat(k))

C8_ReturnedListIsPushedListWithoutRepeats ==
    Loaded =>
        /\ \A k \in 1..(Len(origin) - 1) :
              \/ origin[k][1] < origin[k + 1][1]
              \/ origin[k][1] = origin[k + 1][1] /\ origin[k][2] < origin[k + 1][2]
        /\ \E first \in {FirstOccurrences} :
              expandedEvents = [n \in 1..Len(first) |-> events[first[n]]]

C8_Witness ==
    /\ Loaded
    /\ \E k \in 1..Len(events) :
          /\ IsRepeat(k)
          /\ \E j \in 1..(k - 1) : events[j].title # events[k].title
          /\ \E j \in (k + 1)..Len(events) : ~IsRepeat(j)

(* C10: no step changes the loaded dataset or the locations' coordinates,   *)
(* the month configuration changes only by a month card's patch and never   *)
(* when the dataset is loaded or the location selected, and the list an     *)
(* expansion returns is an array no one else holds.                         *)
C10_ExpansionLeavesInputsAlone ==
    [][/\ file' = file
       /\ amaal' \in {amaal, <<file>>}
       /\ locations' = LOCATIONS
       /\ (selectedLocation' # selectedLocation \/ amaal' # amaal)
              => configs' = configs
       /\ configs' # configs =>
              \E i \in 1..Len(hijriMonths) : \E patch \in Patches :
                  configs' = updatedConfigs(configs, hijriMonths[i], patch)
       /\ listFresh']_vars

C10_Witness ==
    /\ Loaded
    /\ DOMAIN configs # {}
    /\ selectedLocation = "toronto"
    /\ \E i \in 1..Len(Items) : Items[i].hijri_month # normMonth(Items[i].hijri_month)
    /\ Len(expandedEvents) > 0
    /\ listFresh

(* C11: every event of a default-path rule of period day, for each lunar   *)
(* day d it covers, is not all-day, starts at the dawn and ends at the dusk *)
(* the day-boundary provider gives for the civil date of d (anchor start    *)
(* date + (d - 1)), the selected location's timezone and coordinates, and   *)
(* is titled with the label or "<ordinal of d> Day".                        *)
IsDayRule(item) == IsDefaultPath(item) /\ item.period = "day"

\* The provider's answers for a place, as wall-clock parts of an instant.
DawnAt(coords) == "<fajr@" \o coords.lat \o "," \o coords.lon \o ">"
DuskAt(coords) == "<maghrib@" \o coords.lat \o "," \o coords.lon \o ">"

C11_DayEventFromDawnToDusk ==
    Loaded =>
        \A k \in 1..Len(origin) :
            \E item \in {Items[origin[k][1]]} :
            \E d \in {origin[k][2]} :
                (IsDayRule(item) /\ Dated(item)) =>
                    \E civil \in {CivilDay(AnchorOf(item), d, 0)} :
                        /\ ~events[k].allDay
                        /\ events[k].startISO = IsoAt(civil, DawnAt(Location.coords))
                        /\ events[k].endISO = IsoAt(civil, DuskAt(Location.coords))
                        /\ DateText(events[k].startISO) =
                               DateText(IsoAt(civil, "00:00:00.000"))
                        /\ events[k].title =
                               IF item.label # "" THEN item.label
                               ELSE getOrdinal(d) \o " Day"
                        /\ (d = 15 /\ item.label = "") => events[k].title = "15th Day"

C11_Witness ==
    /\ Loaded
    /\ selectedLocation = "toronto"
    /\ \E k \in 1..Len(origin) :
          /\ IsDayRule(Items[origin[k][1]])
          /\ AnchorOf(Items[origin[k][1]]) = [startDateISO |-> "2024-03-11", length |-> 30]
          /\ origin[k][2] = 15
          /\ DateText(events[k].startISO) = "2024-03-25"
          /\ events[k].title = "15th Day"
          /\ ~events[k].allDay

(* C12: every event of a default-path rule whose period is neither night   *)
(* nor day, for each lunar day d it covers, is all-day and spans exactly    *)
(* the civil date of d: from the start of that day to the start of the      *)
(* next.                                                                    *)
IsAllDayRule(item) == IsDefaultPath(item) /\ item.period \notin {"night", "day"}

C12_FallbackEventSpansOneCivilDate ==
    Loaded =>
        \A k \in 1..Len(origin) :
            \E item \in {Items[origin[k][1]]} :
                (IsAllDayRule(item) /\ Dated(item)) =>
                    \E civil \in {CivilDay(AnchorOf(item), origin[k][2], 0)} :
                        /\ events[k].allDay
                        /\ events[k].startISO = IsoAt(civil, "00:00:00.000")
                        /\ events[k].endISO = IsoAt(civil + 1, "00:00:00.000")
                        /\ (AnchorOf(item).startDateISO = "2024-03-11"
                            /\ origin[k][2] = 15)
                               => /\ SubSeq(events[k].startISO, 1, 16) = "2024-03-25T00:00"
                                  /\ SubSeq(events[k].endISO, 1, 16) = "2024-03-26T00:00"

C12_Witness ==
    /\ Loaded
    /\ \E k \in 1..Len(origin) :
          /\ IsAllDayRule(Items[origin[k][1]])
          /\ Items[origin[k][1]].period = "undefined"
          /\ origin[k][2] = 15
          /\ SubSeq(events[k].endISO, 1, 16) = "2024-03-26T00:00"

(* C13: for every day number n >= 1, getOrdinal(n) is n followed by "th"   *)
(* when n mod 100 is 11, 12 or 13, otherwise by "st", "nd" or "rd" when     *)
(* n mod 10 is 1, 2 or 3, and by "th" otherwise (1st, 2nd, 3rd, 10th, 11th, *)
(* 12th, 13th, 20th, 21st, 22nd, 23rd, 30th).                               *)
SuffixOf(m) ==
    IF m % 100 \in {11, 12, 13} THEN "th"
    ELSE IF m % 10 = 1 THEN "st"
    ELSE IF m % 10 = 2 THEN "nd"
    ELSE IF m % 10 = 3 THEN "rd"
    ELSE "th"

OrdinalExamples ==
    {<<1, "1st">>, <<2, "2nd">>, <<3, "3rd">>, <<10, "10th">>, <<11, "11th">>,
     <<12, "12th">>, <<13, "13th">>, <<20, "20th">>, <<21, "21st">>,
     <<22, "22nd">>, <<23, "23rd">>, <<30, "30th">>}

C13_OrdinalSuffix ==
    (ordinalArg >= 1 /\ ordinalResult # "") =>
        /\ ordinalResult = ToString(ordinalArg) \o SuffixOf(ordinalArg)
        /\ \A ex \in OrdinalExamples : ordinalArg = ex[1] => ordinalResult = ex[2]

C13_Witness == ordinalArg = 112 /\ ordinalResult = "112th"

(* C14: the title of every event is its rule's label when the rule has     *)
(* one; otherwise it is "<ordinal of d> Night" for a default-path rule of   *)
(* period night, "<ordinal of d> Day" for every other default-path rule and *)
(* for a weekday rule, and the rule's lunar month name, as the rule writes  *)
(* it, for a month-wide rule.                                               *)
OrdinalTitle(d, word) == ToString(d) \o SuffixOf(d) \o " " \o word

C14_TitleIsLabelOrGenerated ==
    Loaded =>
        \A k \in 1..Len(origin) :
            \E item \in {Items[origin[k][1]]} :
            \E d \in {origin[k][2]} :
                events[k].title =
                    IF item.label # "" THEN item.label
                    ELSE IF IsMonthWide(item) THEN item.hijri_month
                    ELSE IF IsNightRule(item) THEN OrdinalTitle(d, "Night")
                    ELSE OrdinalTitle(d, "Day")

C14_Witness ==
    /\ Loaded
    /\ \E k \in 1..Len(origin) :
          /\ IsMonthWide(Items[origin[k][1]])
          /\ Items[origin[k][1]].label = ""
          /\ events[k].title = "Ramadan"
    /\ \E k \in 1..Len(origin) : events[k].title = "15th Night"

\* C14 as stated: the title of every event, those of month-wide rules
\* included, is the rule's label or else an ordinal "<ordinal> Day" or
\* "<ordinal> Night".
C14_TitleIsLabelOrOrdinal ==
    Loaded =>
        \A k \in 1..Len(origin) :
            \E item \in {Items[origin[k][1]]} :
                events[k].title \in
                    IF item.label # "" THEN {item.label}
                    ELSE {OrdinalTitle(d, word) :
                             d \in 0..30, word \in {"Day", "Night"}}

(* C15: every event carries its rule's text as description and its rule's  *)
(* sections value as it is, an absent one as null; every returned event is  *)
(* one of the pushed events, unaltered.                                     *)
AsCarried(sections) == IF sections = "undefined" THEN "null" ELSE sections

C15_TextAndSectionsCarried ==
    Loaded =>
        /\ \A k \in 1..Len(origin) :
              \E item \in {Items[origin[k][1]]} :
                  /\ events[k].description = item.text
                  /\ events[k].sections = AsCarried(item.sections)
        /\ \A j \in 1..Len(expandedEvents) :
              \E k \in 1..Len(events) : expandedEvents[j] = events[k]

C15_Witness ==
    /\ Loaded
    /\ \E j, k \in 1..Len(expandedEvents) :
          /\ expandedEvents[j].sections = "null"
          /\ expandedEvents[j].description = "text 2"
          /\ expandedEvents[k].sections = "{intro:1}"
          /\ expandedEvents[k].description = "text 1"

(* C16: the color of an event is decided by its rule's kind and period      *)
(* alone; night events, day events (those of weekday rules included) and    *)
(* the all-day events have three pairwise different colors, and the         *)
(* month-wide event has the same color as the generic all-day event.        *)
ColorCategory(item) ==
    IF IsMonthWide(item) THEN "month-wide"
    ELSE IF IsWeekday(item) THEN "day"
    ELSE IF item.period = "night" THEN "night"
    ELSE IF item.period = "day" THEN "day"
    ELSE "all-day"

Purplish == {"month-wide", "all-day"}

C16_ThreeCategoryColors ==
    Loaded =>
        \A k, j \in 1..Len(origin) :
            \E a \in {Items[origin[k][1]]} :
            \E b \in {Items[origin[j][1]]} :
                /\ (a.rule_kind = b.rule_kind /\ a.period = b.period)
                       => events[k].color = events[j].color
                /\ (events[k].color = events[j].color) <=>
                       \/ ColorCategory(a) = ColorCategory(b)
                       \/ {ColorCategory(a), ColorCategory(b)} = Purplish

C16_Witness ==
    /\ Loaded
    /\ \E k, j \in 1..Len(origin) :
          /\ ColorCategory(Items[origin[k][1]]) = "month-wide"
          /\ ColorCategory(Items[origin[j][1]]) = "all-day"
          /\ events[k].color = events[j].color
          /\ \E i \in 1..Len(expandedEvents) : expandedEvents[i] = events[k]
          /\ \E i \in 1..Len(expandedEvents) : expandedEvents[i] = events[j]

\* C16 as stated: the color is decided by the rule's kind and period alone,
\* and the month-wide, day, night and generic all-day categories have four
\* pairwise different colors.
C16_FourCategoryColors ==
    Loaded =>
        \A k, j \in 1..Len(origin) :
            \E a \in {Items[origin[k][1]]} :
            \E b \in {Items[origin[j][1]]} :
                /\ (a.rule_kind = b.rule_kind /\ a.period = b.period)
                       => events[k].color = events[j].color
                /\ ColorCategory(a) # ColorCategory(b)
                       => events[k].color # events[j].color

(* C17: when an anchor's length goes from 29 to 30 and nothing else        *)
(* changes, a month-wide event only has its end moved one day later; for    *)
(* every other rule whose start day is below 30 every event of the lunar    *)
(* days 1..29 stays as it is and only events of lunar day 30 are added; a   *)
(* default-path rule whose start day is 30 or more has its one event on day *)
(* 29 in the 29-day month and on day 30 in the 30-day month.                *)
LengthGrows ==
    /\ Loaded
    /\ amaal' = amaal
    /\ selectedLocation' = selectedLocation
    /\ \E key \in DOMAIN configs :
          /\ configs[key].length = 29
          /\ configs' = [configs EXCEPT ![key].length = 30]

SameButTimes(a, b) ==
    /\ a.id = b.id /\ a.title = b.title /\ a.allDay = b.allDay
    /\ a.color = b.color

SameEvent(a, b) ==
    SameButTimes(a, b) /\ a.startISO = b.startISO /\ a.endISO = b.endISO

\* The event of lunar day d of rule i is the same before and after the step.
KeptAsItWas(i, d) ==
    \A k \in 1..Len(origin) :
        origin[k] = <<i, d>> =>
            \E j \in 1..Len(origin') :
                origin'[j] = <<i, d>> /\ SameEvent(events[k], events'[j])

\* The step brings no event of rule i but for lunar day 30.
OnlyDay30Added(i) ==
    \A j \in 1..Len(origin') :
        (origin'[j][1] = i /\ origin'[j][2] # 30) =>
            \E k \in 1..Len(origin) :
                origin[k] = origin'[j] /\ SameEvent(events[k], events'[j])

\* The month-wide event of rule i has its end, and only that, a day later.
EndMovedOneDay(i) ==
    \A k \in 1..Len(origin) : \A j \in 1..Len(origin') :
        (origin[k] = <<i, 0>> /\ origin'[j] = <<i, 0>>) =>
            /\ SameButTimes(events[k], events'[j])
            /\ events[k].startISO = events'[j].startISO
            /\ Dated(Items[i]) =>
                  \E first \in {CivilDay(AnchorOf(Items[i]), 1, 0)} :
                      /\ events[k].endISO = IsoAt(first + 29, "00:00:00.000")
                      /\ events'[j].endISO = IsoAt(first + 30, "00:00:00.000")

StartsBeyondDay29(item) ==
    IsDefaultPath(item) /\ item.start_day # Null /\ item.start_day[1] >= 30

C17_LengthChangesBoundsOnly ==
    [][LengthGrows =>
          \A i \in 1..Len(Items) :
              IF IsMonthWide(Items[i]) THEN EndMovedOneDay(i)
              ELSE IF StartsBeyondDay29(Items[i])
                   THEN /\ \A k \in 1..Len(origin) :
                              origin[k][1] = i => origin[k][2] = 29
                        /\ \A j \in 1..Len(origin') :
                              origin'[j][1] = i => origin'[j][2] = 30
                        /\ \E k \in 1..Len(origin) : origin[k][1] = i
                        /\ \E j \in 1..Len(origin') : origin'[j][1] = i
                   ELSE /\ \A d \in 1..29 : KeptAsItWas(i, d)
                        /\ OnlyDay30Added(i)]_vars

C17_Witness ==
    /\ Loaded
    /\ \E i, j \in 1..Len(Items) :
          /\ StartsBeyondDay29(Items[i])
          /\ Dated(Items[i])
          /\ AnchorOf(Items[i]).length = 29
          /\ DaysPushedBy(i) = <<29>>
          /\ ~IsMonthWide(Items[j]) /\ ~StartsBeyondDay29(Items[j])
          /\ Len(DaysPushedBy(j)) > 0

\* C17 as stated: for any rule, the step from length 29 to 30 leaves every
\* event of the lunar days 1..29 as it is and only adds events of lunar day
\* 30, and only moves the end of a month-wide event a day later.
C17_LengthOnlyAddsDay30 ==
    [][LengthGrows =>
          \A i \in 1..Len(Items) :
              IF IsMonthWide(Items[i]) THEN EndMovedOneDay(i)
              ELSE /\ \A d \in 1..29 : KeptAsItWas(i, d)
                   /\ OnlyDay30Added(i)]_vars

(* C18: the id of every event is its rule's id followed by the suffix of    *)
(* its branch and lunar day (none for the month-wide event), and whenever   *)
(* the rules have pairwise different ids, so have the returned events.      *)
RuleIdsDistinct ==
    \A i, j \in 1..Len(Items) : i # j => Items[i].id # Items[j].id

IdSuffixes(d) ==
    {"", "_d" \o ToString(d), "_night_" \o ToString(d),
     "_day_" \o ToString(d), "_allday_" \o ToString(d)}

C18_EventIdsDistinct ==
    (Loaded /\ RuleIdsDistinct) =>
        /\ \A k \in 1..Len(origin) :
              events[k].id \in
                  {Items[origin[k][1]].id \o suffix : suffix \in IdSuffixes(origin[k][2])}
        /\ \A j, k \in 1..Len(expandedEvents) :
              j # k => expandedEvents[j].id # expandedEvents[k].id

(* C19: once the load of the dataset has failed (the fetch was rejected,    *)
(* the body did not parse, or the parsed document has no well-formed items  *)
(* list), the failure has been reported, and in every state after it,       *)
(* whatever locations are selected and anchors edited, no render has        *)
(* crashed and the calendar's event list is empty.                          *)
WellFormed(doc) ==
    /\ "items" \in DOMAIN doc
    /\ \A i \in 1..Len(doc.items) :
          {"id", "hijri_month", "rule_kind", "period"} \subseteq DOMAIN doc.items[i]

LoadFailed ==
    loadState # "pending" /\ (response # "json" \/ ~WellFormed(file))

C19_LoadFailureReportedCalendarEmpty ==
    LoadFailed =>
        /\ loadState = "alerted"
        /\ ~crashed
        /\ expandedEvents = <<>>

(* C20: in every rendered state the list handed to the calendar is empty    *)
(* while no dataset is loaded and is otherwise the expansion of the current *)
(* dataset under the current anchors and the timezone and coordinates of    *)
(* the location now selected.                                               *)
C20_ListIsExpansionOfCurrentInputs ==
    ~crashed =>
        IF amaal = Null THEN expandedEvents = <<>>
        ELSE expandedEvents =
                 expandAmaalEvents(
                     [amaal        |-> amaal[1],
                      monthConfigs |-> configs,
                      timezone     |-> LOCATIONS[selectedLocation].timezone,
                      coords       |-> LOCATIONS[selectedLocation].coords],
                     {ItemsRef, HeldRef}).ret

C20_Witness ==
    /\ Loaded
    /\ selectedLocation = "toronto"
    /\ \E key \in DOMAIN configs : configs[key] = [startDateISO |-> "2024-03-10", length |-> 29]
    /\ \E j \in 1..Len(expandedEvents) :
          SubSeq(expandedEvents[j].startISO, 1, 29) = "2024-03-10T00:00:00.000-05:00"


----------------------------------------------------------------------------
----------------------------------------------------------------------------
\* The call of the geocoding handler has ended.
GeocodeEnded == geocode.pc \in {"returned", "threw"}

\* The query has a trimmed length of at least 2.
ValidQuery == geocode.q # Null /\ Len(trim(geocode.q[1])) >= 2

\* C22: when q is missing or its trimmed length is below 2 the geocoding
\* handler returns status 400 with ok = false and the upstream service is
\* never contacted; otherwise the query is forwarded upstream.
C22_ShortQueryRefusedOthersForwarded ==
    geocode.pc \notin {"idle", "called"} =>
        IF ValidQuery
        THEN geocode.sent = <<geocodeUrl(geocode.q[1])>>
        ELSE /\ geocode.pc = "returned"
             /\ geocode.status = 400
             /\ geocode.body.ok = FALSE
             /\ geocode.sent = Null

C22_Witness ==
    /\ geocode.pc = "returned"
    /\ geocode.q = <<" a ">>
    /\ geocode.status = 400
    /\ geocode.sent = Null


\* The upstream exchange succeeded: the fetch resolved to a success status
\* whose body is a JSON list.
UpstreamSucceeded ==
    /\ geocode.upstream.kind = "resolves"
    /\ geocode.upstream.ok
    /\ geocode.upstream.json = "list"

\* C23: for a valid query, when the upstream service fails (the request
\* fails, the status is no success, or the body is no JSON list) the handler
\* ends with status 500 and ok = false, never with ok = true; when the
\* upstream succeeds it ends with ok = true and at most 5 results, each of
\* shape {displayName, lat, lon}.
C23_UpstreamFailureIsServerError ==
    (GeocodeEnded /\ ValidQuery) =>
        IF UpstreamSucceeded
        THEN /\ geocode.pc = "returned"
             /\ geocode.body.ok = TRUE
             /\ Len(geocode.body.results) <= 5
             /\ \A k \in 1..Len(geocode.body.results) :
                   DOMAIN geocode.body.results[k] = {"displayName", "lat", "lon"}
        ELSE /\ geocode.pc = "returned"
             /\ geocode.status = 500
             /\ geocode.body.ok = FALSE


----------------------------------------------------------------------------
\* The text is the ISO rendering of an instant: a civil date, a wall-clock
\* time and an offset.
IsInstant(iso) ==
    /\ iso # NullStr
    /\ Len(iso) > 11
    /\ fromISO(DateText(iso)).valid
    /\ CharAt(iso, 11) = "T"

----------------------------------------------------------------------------
\* The civil day and the wall-clock time of an ISO text.
DayOf(iso) == fromISO(DateText(iso)).days
TimeOf(iso) == SubSeq(iso, 12, 23)

\* The instant is not earlier than the start of the civil day.
NotBeforeStartOf(iso, day) == DayOf(iso) >= day

\* The instant is not later than the start of the civil day.
NotAfterStartOf(iso, day) ==
    \/ DayOf(iso) < day
    \/ DayOf(iso) = day /\ TimeOf(iso) = StartOfDayTime

\* The all-day events pushed for rules of dated months lie in the `length`
\* civil days that begin `shift(rule)` days after the anchor's start date.
AllDayEventsWithin(shift(_)) ==
    \A k \in 1..Len(origin) :
        \E item \in {Items[origin[k][1]]} :
            (Dated(item) /\ events[k].allDay) =>
                \E first \in {CivilDay(AnchorOf(item), 1, shift(item))} :
                    /\ NotBeforeStartOf(events[k].startISO, first)
                    /\ NotAfterStartOf(events[k].endISO,
                                       first + AnchorOf(item).length)

\* C25 (as amended): every all-day event of a rule lies within the civil span
\* of the rule's lunar month, from the start of the anchor's start date to the
\* start of the day `length` days later; for a night rule the span is taken
\* one day earlier, so that the night of lunar day 1 lies on the civil day
\* before the anchor's start date.
C25_AllDayEventsWithinMonthSpan ==
    Loaded =>
        AllDayEventsWithin(LAMBDA item : IF IsNightRule(item) THEN -1 ELSE 0)

\* A night rule covering lunar day 1 has its event on the eve of the anchor.
C25_Witness ==
    /\ Loaded
    /\ \E k \in 1..Len(origin) :
          /\ IsNightRule(Items[origin[k][1]])
          /\ Dated(Items[origin[k][1]])
          /\ origin[k][2] = 1
          /\ events[k].allDay
          /\ DayOf(events[k].startISO) = CivilDay(AnchorOf(Items[origin[k][1]]), 1, -1)
          /\ \E j \in 1..Len(expandedEvents) : expandedEvents[j] = events[k]

\* C25 as claimed: the all-day events of every rule, night rules covering
\* lunar day 1 included, start no earlier than the anchor's start date and
\* end no later than `length` days after it.
C25_AllDayEventsWithinAnchorSpan ==
    Loaded => AllDayEventsWithin(LAMBDA item : 0)


----------------------------------------------------------------------------
\* The rule with its period, start day and end day taken away, when it is a
\* weekday rule.
WithoutPeriodAndRange(item) ==
    IF IsWeekday(item) /\ ~IsMonthWide(item)
    THEN [item EXCEPT !.period = "day", !.start_day = Null, !.end_day = Null]
    ELSE item

\* C26: the events of a weekday or weekday_multi rule do not depend on the
\* rule's period, start day or end day: the rule expands to the events of
\* the rule that differs from it in those three fields only, each timed from
\* the provider's dawn to dusk of the matching civil date, not all-day, in
\* the day color and titled "<ordinal> Day" unless the rule has a label.
C26_WeekdayEventsIgnorePeriodAndRange ==
    Loaded =>
        /\ LetIn(expandAmaalEvents(
                    [amaal        |-> [amaal[1] EXCEPT
                                         !.items = [i \in 1..Len(Items) |->
                                                      WithoutPeriodAndRange(Items[i])]],
                     monthConfigs |-> configs,
                     timezone     |-> Location.timezone,
                     coords       |-> Location.coords],
                    {ItemsRef, HeldRef}),
                 LAMBDA r : events = r.events /\ expandedEvents = r.ret)
        /\ \A k \in 1..Len(origin) :
              \E item \in {Items[origin[k][1]]} :
              \E d \in {origin[k][2]} :
                  (IsWeekday(item) /\ ~IsMonthWide(item)) =>
                      \E civil \in {CivilDay(AnchorOf(item), d, 0)} :
                          /\ ~events[k].allDay
                          /\ events[k].startISO = IsoAt(civil, DawnAt(Location.coords))
                          /\ events[k].endISO = IsoAt(civil, DuskAt(Location.coords))
                          /\ events[k].color = "#059669"
                          /\ events[k].title =
                                 IF item.label # "" THEN item.label
                                 ELSE getOrdinal(d) \o " Day"

\* A weekday rule of period night with the range 3..4 has an event outside
\* that range, titled as a day.
C26_Witness ==
    /\ Loaded
    /\ \E k \in 1..Len(origin) :
          \E item \in {Items[origin[k][1]]} :
              /\ IsWeekday(item)
              /\ item.period = "night"
              /\ item.start_day = <<3>> /\ item.end_day = <<4>>
              /\ origin[k][2] > 4
              /\ events[k].title = getOrdinal(origin[k][2]) \o " Day"
              /\ \E j \in 1..Len(expandedEvents) : expandedEvents[j] = events[k]


----------------------------------------------------------------------------
\* The tree the call built, and the bullets it was built from.
Tree == bulletsResult.nodes
NonBlank == validBullets(bulletsArg)
LevelOf(b) == Max(1, IF b.level = 0 THEN 1 ELSE b.level)

\* The nodes of the subtree of node k (0: the root) in pre-order, the root
\* itself left out.
RECURSIVE PreOrder(_, _)
PreOrder(nodes, k) ==
    LetIn(SelectSeq([j \in 1..Len(nodes) |-> j], LAMBDA j : nodes[j].parent = k),
          LAMBDA children :
        LET RECURSIVE Walk(_)
            Walk(c) == IF c > Len(children) THEN <<>>
                       ELSE (<<children[c]>> \o PreOrder(nodes, children[c]))
                            \o Walk(c + 1)
        IN Walk(1))

\* C27: in the tree renderNestedBullets builds, for every input list (lists
\* whose first bullet has a level above 1 or whose levels skip included), the
\* pre-order sequence of the nodes is the sequence of the non-blank bullets,
\* a bullet of a greater level than its predecessor is a child of that
\* predecessor, and two consecutive bullets of the same level are siblings
\* under the same parent.
C27_TreeFollowsLevels ==
    (bulletsResult.pc = "returned" /\ ~bulletsResult.isNull) =>
        /\ Len(Tree) = Len(NonBlank)
        /\ PreOrder(Tree, 0) = [k \in 1..Len(Tree) |-> k]
        /\ \A k \in 1..Len(Tree) :
              /\ Tree[k].text = NonBlank[k].text
              /\ Tree[k].level = LevelOf(NonBlank[k])
        /\ \A k \in 2..Len(Tree) :
              /\ LevelOf(NonBlank[k]) > LevelOf(NonBlank[k - 1])
                    => Tree[k].parent = k - 1
              /\ LevelOf(NonBlank[k]) = LevelOf(NonBlank[k - 1])
                    => Tree[k].parent = Tree[k - 1].parent


----------------------------------------------------------------------------
\* The anchor a map holds under a key, the defaults when it holds none.
AnchorOrDefault(cf, key) ==
    IF key \in DOMAIN cf THEN cf[key] ELSE [startDateISO |-> "", length |-> 30]

\* The step changed the anchors as updateMonth of month i with the patch is
\* to (keys[j] is the key of month j): only the anchor of the month, only the
\* patched field, from the defaults when the month had no anchor; every
\* other month has what it had.
OnlyPatched(keys, i, patch) ==
    \E was \in {AnchorOrDefault(configs, keys[i])} :
        /\ DOMAIN configs' = DOMAIN configs \cup {keys[i]}
        /\ \A k \in DOMAIN configs \ {keys[i]} : configs'[k] = configs[k]
        /\ \A j \in 1..Len(keys) :
              j # i => AnchorOrDefault(configs', keys[j]) =
                           AnchorOrDefault(configs, keys[j])
        /\ IF patch.field = "startDateISO"
           THEN /\ configs'[keys[i]].startDateISO = patch.value
                /\ configs'[keys[i]].length = was.length
           ELSE /\ configs'[keys[i]].length = patch.value
                /\ configs'[keys[i]].startDateISO = was.startDateISO

\* C28: updateMonth(m, patch) changes only the anchor of month m and only the
\* field the patch names: every other month's anchor is unchanged, the other
\* field of m keeps its value, and a month without an anchor starts from the
\* defaults (empty start date, length 30); so each month's start date and
\* length are those of the last patch that set them, or the defaults.
C28_UpdateMonthChangesOnlyThePatchedField ==
    [][configs' # configs =>
          \E keys \in {[j \in 1..Len(hijriMonths) |-> pageNormMonth(hijriMonths[j])]} :
              \E i \in 1..Len(hijriMonths) : \E patch \in Patches :
                  OnlyPatched(keys, i, patch)]_vars

\* Both months have an anchor: one was given a date and then the length 29,
\* the other only the length 29.
C28_Witness ==
    /\ Len(hijriMonths) = 2
    /\ \E a, b \in DOMAIN configs :
          /\ a # b
          /\ configs[a] = [startDateISO |-> "2024-03-10", length |-> 29]
          /\ configs[b] = [startDateISO |-> "", length |-> 29]


----------------------------------------------------------------------------
\* C30: for every month name m of HIJRI_MONTHS and every rule whose
\* hijri_month is m up to letter case, leading and trailing white space and
\* runs of inner white space, the expander finds exactly the anchor that
\* updateMonth stored for m: the key the page's normMonth writes is the key
\* the expander's normMonth reads.
C30_PageKeyIsExpanderKey ==
    /\ (loadState = "pending" /\ configs = <<>>) =>
          \A n \in 1..Len(HIJRI_MONTHS) :
              \E key \in {pageNormMonth(HIJRI_MONTHS[n])} :
                  /\ key = normMonth(HIJRI_MONTHS[n])
                  /\ \A v \in Spellings(HIJRI_MONTHS[n]) : normMonth(v) = key
    /\ Loaded =>
          \A j \in 1..Len(hijriMonths) :
              \E key \in {pageNormMonth(hijriMonths[j])} :
              \E spelt \in {Spellings(hijriMonths[j])} :
                  \A i \in 1..Len(Items) :
                      Items[i].hijri_month \in spelt =>
                          lookupConfig(configs, Items[i]) =
                              IF key \in DOMAIN configs THEN <<configs[key]>>
                              ELSE Null

\* A rule whose month is spelt with runs of white space has the event of the
\* anchor stored under the month card's name.
C30_Witness ==
    /\ Loaded
    /\ Len(expandedEvents) = 1
    /\ \E j \in 1..Len(hijriMonths) :
          /\ Items[1].hijri_month = "\n" \o Widened(toLowerCase(hijriMonths[j]))
          /\ Items[1].hijri_month # "\n" \o toLowerCase(hijriMonths[j])
          /\ pageNormMonth(hijriMonths[j]) \in DOMAIN configs
          /\ configs[pageNormMonth(hijriMonths[j])].startDateISO = "2024-03-11"
          /\ DateText(expandedEvents[1].startISO) = "2024-03-11"


----------------------------------------------------------------------------
\* C29: whenever the selected location changes, the display timezone is
\* eventually set to the newly selected location, whatever display timezone
\* was chosen before; once the effect has run, the display timezone differs
\* from the selected location only after an explicit display-timezone
\* selection made since the last location change; and a change of the display
\* timezone leaves the expanded event list as it is.
C29_DisplayTimezoneFollowsLocation ==
    /\ \A loc \in DOMAIN LOCATIONS :
          (effectPending /\ selectedLocation = loc)
              ~> (~effectPending /\ displayTimezone = loc)
    /\ [][selectedLocation' # selectedLocation => effectPending']_vars
    /\ [][(displayTimezone' # selectedLocation' /\ ~effectPending') =>
              /\ selectedLocation' = selectedLocation
              /\ ~effectPending
              /\ displayTimezone # selectedLocation
                 \/ displayTimezone' # displayTimezone]_vars
    /\ [][displayTimezone' # displayTimezone =>
              /\ expandedEvents' = expandedEvents
              /\ events' = events]_vars

\* After a display timezone was chosen by hand and the location changed, the
\* effect has set the display timezone to the location, with events shown.
C29_Witness ==
    /\ ~effectPending
    /\ selectedLocation = "toronto"
    /\ displayTimezone = "toronto"
    /\ Len(expandedEvents) > 0

====
